---- MODULE Spec2Model ----
(***************************************************************************)
(* State-machine model of the code-generation pipeline:                    *)
(*   - MemoryManager        (src/src/utils/memoryManager.ts)               *)
(*   - EnhancedCodeGenerationEngine.generateCode                           *)
(*                          (src/src/services/enhanced-code-generation-    *)
(*                           engine.ts)                                    *)
(*   - WorkerManager        (src/unnamed/part_005)                         *)
(*   - CodeAssembler        (src/unnamed/part_016)                         *)
(*   - svgToJsx, LargeSvgHandler                                           *)
(*                          (src/src/lib/svg-to-jsx/index.ts,              *)
(*                           src/src/lib/svg-to-jsx/large-file-handler.ts) *)
(* Units: cache sizes are in MiB, cache times in minutes, document sizes   *)
(* in bytes.                                                               *)
(***************************************************************************)
EXTENDS Integers, Sequences, FiniteSets, TLC

VARIABLES
    \* ---- MemoryManager ----
    cache,             \* Map<string,{data,timestamp,size}> in insertion order
    currentCacheSize,  \* MemoryManager.currentCacheSize
    now,               \* Date.now()
    \* ---- EnhancedCodeGenerationEngine ----
    pc,                \* position of every generateCode run
    sessionId,         \* the run's local sessionId (0: no such local)
    progress,          \* percentages handed to the run's progressCallback
    thrown,            \* the error a phase of the run threw
    result,            \* the run's local result (null: no such local)
    outcome,           \* what generateCode returned or rejected with
    generationQueue,   \* Map<string,GenerationContext>
    stored,            \* history: runs whose memoryManager.store has written the cache
    evicted,           \* history: runs whose cache entry cleanup() or expiry removed
    \* ---- WorkerManager ----
    worker,            \* this.worker: "alive" or "null"
    pendingTasks,      \* Map<string,{resolve,reject}>: ctx names the task of the closures
    promise,           \* the promise executeTask returned for every task
    taskId,            \* the id local of every executeTask call (0: none)
    timer,             \* the setTimeout of every executeTask call
    settleCalls,       \* history: calls of resolve/reject (or the throw) per task
    toWorker,          \* messages posted to the worker, not yet handled
    fromWorker,        \* results posted by the worker, not yet delivered
    \* ---- CodeAssembler ----
    adaptedCode,       \* the adaptedCode argument
    config,            \* the config argument
    finalCode,         \* what assembleFinalCode returned
    files,             \* GeneratedCode.files of the run
    asmPc,             \* position of the assembling run
    \* ---- svgToJsx / LargeSvgHandler ----
    svg,               \* the document handed to svgToJsx
    options,           \* mergedOptions
    ipc,               \* position of the svgToJsx call
    abortController,   \* LargeSvgHandler.abortController
    chunks,            \* chunks.length
    processedChunks,   \* processedChunks.length
    steps,             \* history: processing steps that have run
    conversion,        \* what svgToJsx settled with
    caller,            \* who started the run: svgToJsx, or a direct call of
                       \* processLargeSvg with an onProgress callback
    reported,          \* values handed to onProgress, in order
    largeResult,       \* what processLargeSvg settled with
    cancelledAt,       \* history: position of the run when cancel() aborted it
    \* ---- LargeSvgHandler and processStandardSvg on the text of a document ----
    svgContent,        \* the document, a sequence of characters
    validatedSvg,      \* what validateAndCleanSvg returned
    chunkTexts,        \* the chunks chunkSvgContent returned
    processedTexts,    \* the chunks after processChunk
    largeJsx,          \* the jsx processLargeSvg returns
    standardJsx,       \* the jsx processStandardSvg returns for the same document
    textPc,            \* position in the two conversions
    \* ---- sanitizing: the element trees of a conversion ----
    sourceTree,        \* the parsed svg handed to a converter
    outputTree,        \* the elements of the converter's output
    converter,         \* which converter produced outputTree ("none": not yet)
    \* ---- processAttributeName ----
    attrName,          \* the name handed to processAttributeName
    processedOnce,     \* processAttributeName(attrName)
    processedTwice,    \* processAttributeName(processedOnce)
    camelCaseCache,    \* Map<string,string> of camelCase, as a set of entries
    attrPc,            \* how many times the name has been processed
    \* ---- AIDesignAnalyzer ----
    nodes,             \* the nodes handed to analyzeDesignPatterns
    nodeIndex,         \* the node the for loop is at
    patterns,          \* the local patterns
    patternOf,         \* history: the index of the node every pattern is of
    analyzerPc,        \* position of analyzeDesignPatterns
    \* ---- QualityAssessor ----
    qualityCode,       \* the argument code of performQualityAssessment
    qualityConfig,     \* the argument config
    assessment,        \* the QualityAssessment it returns
    assessPc,          \* position of performQualityAssessment
    \* ---- Figma input: extractSVGFromFigma and analyzeFigmaDesign ----
    figmaData,         \* the figmaData argument of both
    extractedSvg,      \* what extractSVGFromFigma returned
    analysis,          \* what analyzeFigmaDesign returned
    \* ---- framework adapters: adaptToFramework and transformer ----
    jsxCode,           \* the JSX text handed to the framework stage
    framework,         \* config.framework
    passProps,         \* config.passProps of the transformer
    svgToJsxThrows,    \* whether svgToJsx(svg) throws in the transformer
    adapterResult,     \* what FrameworkAdapter.adaptToFramework returned
    transformerResult, \* how transformer settled
    \* ---- ErrorHandler and AsyncHandler.executeWithRetry ----
    errorLog,          \* ErrorHandler.errorLog
    handledErrors,     \* the handleError calls since the log was last cleared
    returnedMessages,  \* what each of these calls returned
    retries,           \* config.retries
    attempt,           \* the loop variable of executeWithRetry
    operations,        \* the promise of each operation() call so far
    lastError,         \* lastError of executeWithRetry
    retryOutcome,      \* how executeWithRetry settled
    retryPc,           \* position of executeWithRetry
    \* ---- two processLargeSvg runs on the shared largeSvgHandler ----
    sharedController,  \* largeSvgHandler.abortController: 0 for null, else a controller
    controllers,       \* signal.aborted of each AbortController created so far
    largeChunks,       \* chunks.length of each run
    tooLarge,          \* whether a run's content exceeds maxMemoryUsage
    largePc,           \* position of each run
    largeDone,         \* chunks each run has processed
    cancelSeen,        \* cancel() was called while the run was processing chunks
    processedAfterCancel, \* the run processed a chunk after such a cancel()
    \* ---- FigmaStepsContext: startBatchProcessing ----
    batchProcessing,   \* state.stepData.batchProcessing of the reducer
    capturedBatch,     \* state.stepData.batchProcessing as the running callback sees it
    batchIndex,        \* the loop variable i of startBatchProcessing
    batchesRun,        \* calls of startBatchProcessing so far
    batchPc            \* position of startBatchProcessing

cacheVars  == <<cache, currentCacheSize, now>>
engineVars == <<pc, sessionId, progress, thrown, result, outcome, generationQueue,
                stored, evicted>>
workerVars == <<worker, pendingTasks, promise, taskId, timer, settleCalls,
                toWorker, fromWorker>>
assemblerVars == <<adaptedCode, config, finalCode, files, asmPc>>
ingestVars == <<svg, options, ipc, abortController, chunks, processedChunks,
                steps, conversion, caller, reported, largeResult, cancelledAt>>
textVars == <<svgContent, validatedSvg, chunkTexts, processedTexts, largeJsx,
              standardJsx, textPc>>
sanitizeVars == <<sourceTree, outputTree, converter>>
\* the conversions of names and trees
attributeVars == <<attrName, processedOnce, processedTwice, camelCaseCache, attrPc>>
analyzerVars == <<nodes, nodeIndex, patterns, patternOf, analyzerPc>>
qualityVars == <<qualityCode, qualityConfig, assessment, assessPc>>
pureVars == <<sanitizeVars, attributeVars, analyzerVars, qualityVars>>
\* variables of the remaining subsystems, and what lies outside each
figmaVars == <<figmaData, extractedSvg, analysis>>
frameworkVars == <<jsxCode, framework, passProps, svgToJsxThrows,
                   adapterResult, transformerResult>>
errorsVars == <<errorLog, handledErrors, returnedMessages, retries, attempt,
                operations, lastError, retryOutcome, retryPc>>
sharedVars == <<sharedController, controllers, largeChunks, tooLarge, largePc,
                largeDone, cancelSeen, processedAfterCancel>>
batchVars == <<batchProcessing, capturedBatch, batchIndex, batchesRun, batchPc>>
lateVars == <<figmaVars, frameworkVars, errorsVars, sharedVars, batchVars>>
outsideFigma == <<cacheVars, engineVars, workerVars, assemblerVars,
                  ingestVars, textVars, pureVars, frameworkVars, errorsVars,
                  sharedVars, batchVars>>
outsideFramework == <<cacheVars, engineVars, workerVars, assemblerVars,
                      ingestVars, textVars, pureVars, figmaVars, errorsVars,
                      sharedVars, batchVars>>
outsideErrors == <<cacheVars, engineVars, workerVars, assemblerVars,
                   ingestVars, textVars, pureVars, figmaVars, frameworkVars,
                   sharedVars, batchVars>>
outsideShared == <<cacheVars, engineVars, workerVars, assemblerVars,
                   ingestVars, textVars, pureVars, figmaVars, frameworkVars,
                   errorsVars, batchVars>>
outsideBatch == <<cacheVars, engineVars, workerVars, assemblerVars,
                  ingestVars, textVars, pureVars, figmaVars, frameworkVars,
                  errorsVars, sharedVars>>
\* everything outside the cache and the engine
restVars == <<workerVars, assemblerVars, ingestVars, textVars, pureVars, lateVars>>
vars == <<cacheVars, engineVars, restVars>>

----------------------------------------------------------------------------
\* Bounds of the model
MaxTicks == 2            \* clock advances at most this many times
MaxRuns  == 2            \* generateCode invocations

\* Program constants
MAX_CACHE_SIZE == 50     \* 50 * 1024 * 1024 bytes, in MiB
CACHE_TTL      == 10     \* 10 * 60 * 1000 ms, in minutes

\* one clock step: an entry written at t is still fresh at t + TickStep and
\* expired at t + 2 * TickStep
TickStep == CACHE_TTL
Sizes    == {20, 30, 60} \* serialized sizes of stored values (MiB)

\* a stored value: its identity, the byte size of its JSON serialization and,
\* for a GeneratedCode, its id field (0 otherwise)
Data(v, s) == [val |-> v, size |-> s, id |-> 0]

\* JavaScript null
null == [val |-> 0, size |-> 0, id |-> 0]

----------------------------------------------------------------------------
\* JS Map helpers (insertion-ordered)
MapHas(m, k) == \E i \in 1..Len(m) : m[i].key = k

MapIdx(m, k) == CHOOSE i \in 1..Len(m) : m[i].key = k

MapGet(m, k) == m[MapIdx(m, k)]

MapDelete(m, k) == SelectSeq(m, LAMBDA e : e.key # k)

\* Map.set keeps the position of a key that is already present
MapSet(m, e) ==
    IF MapHas(m, e.key)
    THEN [i \in 1..Len(m) |-> IF m[i].key = e.key THEN e ELSE m[i]]
    ELSE Append(m, e)

MapKeys(m) == {m[i].key : i \in 1..Len(m)}

SumSizes(m) ==
    LET F[i \in 0..Len(m)] == IF i = 0 THEN 0 ELSE F[i - 1] + m[i].size
    IN  F[Len(m)]

----------------------------------------------------------------------------
\* MemoryManager

\* Math.ceil(entries.length * 0.25)
ToRemove(n) == (n + 3) \div 4

\* entries.sort((a, b) => a[1].timestamp - b[1].timestamp) is stable:
\* the position of entry i after sorting (0-based)
SortedPos(m, i) ==
    Cardinality({j \in 1..Len(m) :
        \/ m[j].timestamp < m[i].timestamp
        \/ (m[j].timestamp = m[i].timestamp /\ j < i)})

\* keys removed by cleanup()
CleanupKeys(m) ==
    {m[i].key : i \in {j \in 1..Len(m) : SortedPos(m, j) < ToRemove(Len(m))}}

\* cleanup(): result is the pair (cache, currentCacheSize)
cleanup(m, cur) ==
    LET gone == CleanupKeys(m)
        kept == SelectSeq(m, LAMBDA e : e.key \notin gone)
    IN  [cache |-> kept, size |-> cur - (SumSizes(m) - SumSizes(kept))]

\* the guard of the cleanup call in set()
NeedsCleanup(cur, size) == cur + size > MAX_CACHE_SIZE

\* set(key, data) without the discount of the entry it replaces
setWithoutDiscount(m, cur, key, data, size, t) ==
    LET c1 == IF NeedsCleanup(cur, size) THEN cleanup(m, cur)
              ELSE [cache |-> m, size |-> cur]
    IN  [cache |-> MapSet(c1.cache,
                     [key |-> key, data |-> data, timestamp |-> t, size |-> size]),
         size  |-> c1.size + size]

\* set(key, data)
set(m, cur, key, data, size, t) ==
    LET c1 == IF NeedsCleanup(cur, size) THEN cleanup(m, cur)
              ELSE [cache |-> m, size |-> cur]
        c2 == IF MapHas(c1.cache, key)
              THEN c1.size - MapGet(c1.cache, key).size
              ELSE c1.size
    IN  [cache |-> MapSet(c1.cache,
                     [key |-> key, data |-> data, timestamp |-> t, size |-> size]),
         size  |-> c2 + size]

\* the expiry test of get()
Expired(e, t) == t - e.timestamp > CACHE_TTL

\* get(key): (cache, currentCacheSize, returned value)
get(m, cur, key, t) ==
    IF ~MapHas(m, key)
    THEN [cache |-> m, size |-> cur, result |-> null]
    ELSE LET e == MapGet(m, key)
         IN  IF Expired(e, t)
             THEN [cache |-> MapDelete(m, key), size |-> cur - e.size,
                   result |-> null]
             ELSE [cache |-> m, size |-> cur, result |-> e.data]

----------------------------------------------------------------------------
\* Initial state: a fresh MemoryManager and a fresh engine
Runs == 1..MaxRuns

InitCache ==
    /\ cache = <<>>
    /\ currentCacheSize = 0
    /\ now = 0

InitEngine ==
    /\ pc = [r \in Runs |-> "idle"]
    /\ sessionId = [r \in Runs |-> 0]
    /\ progress = [r \in Runs |-> <<>>]
    /\ thrown = [r \in Runs |-> "none"]
    /\ result = [r \in Runs |-> null]
    /\ outcome = [r \in Runs |-> [kind |-> "pending", value |-> null, error |-> "none"]]
    /\ generationQueue = <<>>
    /\ stored = {}
    /\ evicted = {}

----------------------------------------------------------------------------
\* WorkerManager: initial state
MaxTasks == 2            \* executeTask invocations

Tasks == 1..MaxTasks

\* Math.random().toString(36).substr(2, 9): the ids two calls can draw
TaskIds == {1, 2}

NoPromise == [state |-> "none", reason |-> "none"]

\* the constructor ran initializeWorker(): new Worker(...) succeeded, or it
\* threw and the catch left this.worker null
InitWorker ==
    /\ worker \in {"alive", "null"}
    /\ pendingTasks = <<>>
    /\ promise = [t \in Tasks |-> NoPromise]
    /\ taskId = [t \in Tasks |-> 0]
    /\ timer = [t \in Tasks |-> "none"]
    /\ settleCalls = [t \in Tasks |-> 0]
    /\ toWorker = <<>>
    /\ fromWorker = <<>>

\* the worker was created and is not used
WorkerQuiet == InitWorker /\ worker = "alive"

----------------------------------------------------------------------------
\* CodeAssembler: inputs and initial state

\* JavaScript values of the fields componentCode and styleCode
JsUndefined == [t |-> "undefined", s |-> ""]

JsNull == [t |-> "null", s |-> ""]

Str(x) == [t |-> "string", s |-> x]

ComponentCodes ==
    {JsUndefined, JsNull, Str(""), Str(" "),
     Str("export const GeneratedComponent = () => <div/>;")}

StyleCodes ==
    {JsUndefined, JsNull, Str(""), Str(" "), Str(".generated { color: red; }")}

AdaptedCodes ==
    [componentCode : ComponentCodes, styleCode : StyleCodes]

Configs == [framework : {"react", "vue", "angular", "svelte"}, typescript : BOOLEAN]

NoFinalCode == [files |-> <<>>, structure |-> "none", preview |-> ""]

\* adaptToFramework has returned; assembleFinalCode is about to be called
InitAssembler ==
    /\ adaptedCode \in AdaptedCodes
    /\ config \in Configs
    /\ finalCode = NoFinalCode
    /\ files = <<>>
    /\ asmPc = "adapted"

AssemblerQuiet ==
    /\ InitAssembler
    /\ adaptedCode = [componentCode |-> JsUndefined, styleCode |-> JsUndefined]
    /\ config = [framework |-> "react", typescript |-> TRUE]

----------------------------------------------------------------------------
\* svgToJsx: inputs and initial state
MaxChunks == 3           \* chunks chunkByElements cuts a document into

\* byte sizes named by the code
LARGE_FILE_THRESHOLD  == 1048576      \* 1024 * 1024
DEFAULT_MAX_FILE_SIZE == 10485760     \* 10 * 1024 * 1024
maxChunkSize          == 1048576      \* 1024 * 1024
maxMemoryUsage        == 104857600    \* 100 * 1024 * 1024

DocSizes ==
    {1000, LARGE_FILE_THRESHOLD, LARGE_FILE_THRESHOLD + 1,
     2 * maxChunkSize, 2 * maxChunkSize + 1,
     DEFAULT_MAX_FILE_SIZE, DEFAULT_MAX_FILE_SIZE + 1, maxMemoryUsage + 1}

\* A document is described by what the code looks at: whether it is a
\* string, its byte size (an ASCII text without comments or runs of
\* whitespace: its length before and after cleaning is its byte size),
\* whether it contains "<svg", and the number of chunks chunkByElements
\* cuts it into (looked at only above 2 * maxChunkSize).
Documents ==
    {[kind |-> "other", size |-> 0, hasSvg |-> FALSE, elementChunks |-> 0],
     [kind |-> "string", size |-> 0, hasSvg |-> FALSE, elementChunks |-> 0]}
    \cup {d \in [kind : {"string"}, size : DocSizes, hasSvg : BOOLEAN,
                  elementChunks : 0..MaxChunks] :
             d.size <= 2 * maxChunkSize => d.elementChunks = 0}

\* { ...DEFAULT_OPTIONS, ...options }
DEFAULT_OPTIONS ==
    [enableLargeFileHandling |-> TRUE, maxFileSize |-> DEFAULT_MAX_FILE_SIZE]

OptionSets ==
    [enableLargeFileHandling : BOOLEAN,
     maxFileSize : {DEFAULT_MAX_FILE_SIZE, 2 * maxChunkSize, 2 * maxMemoryUsage}]

NoConversion ==
    [settled |-> "pending", jsx |-> "none", errors |-> <<>>, warnings |-> <<>>,
     isLargeFile |-> FALSE]

NoLargeResult == [settled |-> "pending", jsx |-> "none", error |-> "none"]

\* svgToJsx(svg, options) or processLargeSvg(svg, onProgress) is about to be
\* called; the handler singleton is idle
InitIngest ==
    /\ svg \in Documents
    /\ options \in OptionSets
    /\ caller \in {"svgToJsx", "processLargeSvg"}
    /\ caller = "processLargeSvg" => (svg.kind = "string" /\ options = DEFAULT_OPTIONS)
    /\ reported = <<>>
    /\ largeResult = NoLargeResult
    /\ cancelledAt = "none"
    /\ ipc = "called"
    /\ abortController = "null"
    /\ chunks = 0
    /\ processedChunks = 0
    /\ steps = {}
    /\ conversion = NoConversion

IngestQuiet ==
    /\ InitIngest
    /\ svg = [kind |-> "string", size |-> 1000, hasSvg |-> TRUE, elementChunks |-> 0]
    /\ options = DEFAULT_OPTIONS
    /\ caller = "svgToJsx"

----------------------------------------------------------------------------
\* Conversions on the text of a document: inputs and initial state.
\* A text is a sequence of one-character strings.
MaxBodyTokens == 3       \* pieces of markup after the opening <svg>

\* config.maxChunkSize of a handler constructed as
\* new LargeSvgHandler({ maxChunkSize: 10 })
SmallChunkSize == 10

TokSvgOpen == <<"<", "s", "v", "g", ">">>
TokSvgClose == <<"<", "/", "s", "v", "g", ">">>
TokOpen == <<"<", "g", ">">>
TokClose == <<"<", "/", "g", ">">>
TokSelfClosing == <<"<", "p", "/", ">">>
TokText == <<"t">>
TokSpace == <<" ">>
TokComment == <<"<", "!", "-", "-", "c", "-", "-", ">">>
TokClassed == <<"<", "g", " ", "c", "l", "a", "s", "s", "=", "k", ">">>

BodyTokens ==
    {TokSvgClose, TokOpen, TokClose, TokSelfClosing, TokText, TokSpace,
     TokComment, TokClassed}

Flatten(ts) ==
    LET F[i \in 0..Len(ts)] == IF i = 0 THEN <<>> ELSE F[i - 1] \o ts[i]
    IN  F[Len(ts)]

\* the documents: <svg> followed by up to MaxBodyTokens pieces
TextDocuments ==
    {TokSvgOpen \o Flatten(b) :
        b \in UNION {[1..n -> BodyTokens] : n \in 0..MaxBodyTokens}}

\* nothing has been converted
TextStart ==
    /\ validatedSvg = <<>>
    /\ chunkTexts = <<>>
    /\ processedTexts = <<>>
    /\ largeJsx = <<>>
    /\ standardJsx = <<>>
    /\ textPc = "start"

InitText == svgContent \in TextDocuments /\ TextStart

TextQuiet == svgContent = TokSvgOpen /\ TextStart

----------------------------------------------------------------------------
\* Sanitizing: inputs and initial state.
\* An element is [tagName, attributes, children]; attributes is the set of
\* the attribute names it carries.
MaxChildren == 2      \* children of the root element
MaxAttributes == 1    \* attributes of an element

ALLOWED_HTML_ATTRIBUTES ==
    { "accept", "acceptCharset", "accessKey", "action", "allowFullScreen",
      "allowTransparency", "alt", "async", "autoComplete", "autoFocus",
      "autoPlay", "cellPadding", "cellSpacing", "charSet", "checked", "classID",
      "className", "colSpan", "cols", "content", "contentEditable", "contextMenu",
      "controls", "coords", "crossOrigin", "data", "dateTime", "defer", "dir",
      "disabled", "download", "draggable", "encType", "form", "formAction",
      "formEncType", "formMethod", "formNoValidate", "formTarget", "frameBorder",
      "headers", "height", "hidden", "high", "href", "hrefLang", "htmlFor",
      "httpEquiv", "icon", "id", "label", "lang", "list", "loop", "low",
      "manifest", "marginHeight", "marginWidth", "max", "maxLength", "media",
      "mediaGroup", "method", "min", "multiple", "muted", "name", "noValidate",
      "open", "optimum", "pattern", "placeholder", "poster", "preload",
      "radioGroup", "readOnly", "rel", "required", "role", "rowSpan", "rows",
      "sandbox", "scope", "scoped", "scrolling", "seamless", "selected", "shape",
      "size", "sizes", "span", "spellCheck", "src", "srcDoc", "srcSet", "start",
      "step", "style", "tabIndex", "target", "title", "type", "useMap", "value",
      "width", "wmode" }

ALLOWED_SVG_ATTRIBUTES ==
    { "clipPath", "cx", "cy", "d", "dx", "dy", "fill", "fillOpacity",
      "fontFamily", "fillRule", "fontSize", "fx", "fy", "gradientTransform",
      "gradientUnits", "markerEnd", "markerMid", "markerStart", "offset",
      "opacity", "patternContentUnits", "patternUnits", "points",
      "preserveAspectRatio", "r", "rx", "ry", "spreadMethod", "stopColor",
      "stopOpacity", "stroke", "strokeDasharray", "strokeLinecap",
      "strokeLinejoin", "strokeMiterlimit", "strokeOpacity", "strokeWidth",
      "textAnchor", "transform", "vectorEffect", "version", "viewBox", "xmlns",
      "x1", "x2", "x", "y1", "y2", "y", "xlinkActuate", "xlinkArcrole",
      "xlinkHref", "xlinkRole", "xlinkShow", "xlinkTitle", "xlinkType", "xmlBase",
      "xmlLang", "xmlSpace", "mask", "maskUnits", "filter", "filterUnits",
      "filterRes", "result", "in", "in2", "stdDeviation",
      "colorInterpolationFilters", "floodOpacity", "primitiveUnits",
      "baseFrequency", "numOctaves", "seed", "stitchTiles", "type", "values",
      "tableValues", "slope", "intercept", "amplitude", "exponent", "k1", "k2",
      "k3", "k4" }

ALLOWED_ATTRIBUTES == ALLOWED_HTML_ATTRIBUTES \cup ALLOWED_SVG_ATTRIBUTES

ALLOWED_TAGS ==
    { "circle", "clipPath", "defs", "ellipse", "g", "image", "line",
      "linearGradient", "mask", "path", "pattern", "polygon", "polyline",
      "radialGradient", "rect", "stop", "svg", "text", "use", "tspan", "title",
      "style", "filter", "feFlood", "feBlend", "feGaussianBlur", "feOffset",
      "feColorMatrix", "feMorphology", "feConvolveMatrix", "feDropShadow",
      "foreignObject", "switch", "symbol", "marker", "textPath", "animate",
      "animateTransform" }

\* the tag names and attribute names svg documents of the model use
SourceTags == {"g", "script", "rect"}
SourceAttributes == {"class", "fill", "stroke-width", "onclick", "data-x"}

\* the names of SourceAttributes that match /^data-/i or /^aria-/i
DataOrAria == {"data-x"}

AttributeSets == {a \in SUBSET SourceAttributes : Cardinality(a) <= MaxAttributes}

Leaves == [tagName : SourceTags, attributes : AttributeSets, children : {<<>>}]

SourceTrees ==
    [tagName : {"svg"}, attributes : AttributeSets,
     children : UNION {[1..n -> Leaves] : n \in 0..MaxChildren}]

NoTree == [tagName |-> "none", attributes |-> {}, children |-> <<>>]

\* no converter has run
SanitizeStart == outputTree = NoTree /\ converter = "none"

InitSanitize == sourceTree \in SourceTrees /\ SanitizeStart

SanitizeQuiet ==
    /\ sourceTree = [tagName |-> "svg", attributes |-> {}, children |-> <<>>]
    /\ SanitizeStart

----------------------------------------------------------------------------
\* processAttributeName: inputs and initial state.
\* A name is a sequence of one-character strings.
MaxNameBody == 3      \* characters of a name after its prefix

\* the table specialCases of processAttributeName
specialCases ==
    <<
      [name |-> <<"c", "l", "a", "s", "s">>,
       jsx  |-> <<"c", "l", "a", "s", "s", "N", "a", "m", "e">>],
      [name |-> <<"f", "o", "r">>,
       jsx  |-> <<"h", "t", "m", "l", "F", "o", "r">>],
      [name |-> <<"x", "l", "i", "n", "k", ":", "h", "r", "e", "f">>,
       jsx  |-> <<"x", "l", "i", "n", "k", "H", "r", "e", "f">>],
      [name |-> <<"x", "l", "i", "n", "k", ":", "a", "c", "t", "u", "a", "t", "e">>,
       jsx  |-> <<"x", "l", "i", "n", "k", "A", "c", "t", "u", "a", "t", "e">>],
      [name |-> <<"x", "l", "i", "n", "k", ":", "a", "r", "c", "r", "o", "l", "e">>,
       jsx  |-> <<"x", "l", "i", "n", "k", "A", "r", "c", "r", "o", "l", "e">>],
      [name |-> <<"x", "l", "i", "n", "k", ":", "r", "o", "l", "e">>,
       jsx  |-> <<"x", "l", "i", "n", "k", "R", "o", "l", "e">>],
      [name |-> <<"x", "l", "i", "n", "k", ":", "s", "h", "o", "w">>,
       jsx  |-> <<"x", "l", "i", "n", "k", "S", "h", "o", "w">>],
      [name |-> <<"x", "l", "i", "n", "k", ":", "t", "i", "t", "l", "e">>,
       jsx  |-> <<"x", "l", "i", "n", "k", "T", "i", "t", "l", "e">>],
      [name |-> <<"x", "l", "i", "n", "k", ":", "t", "y", "p", "e">>,
       jsx  |-> <<"x", "l", "i", "n", "k", "T", "y", "p", "e">>],
      [name |-> <<"x", "m", "l", ":", "l", "a", "n", "g">>,
       jsx  |-> <<"x", "m", "l", "L", "a", "n", "g">>],
      [name |-> <<"x", "m", "l", ":", "s", "p", "a", "c", "e">>,
       jsx  |-> <<"x", "m", "l", "S", "p", "a", "c", "e">>],
      [name |-> <<"x", "m", "l", ":", "b", "a", "s", "e">>,
       jsx  |-> <<"x", "m", "l", "B", "a", "s", "e">>] >>

NamePrefixes ==
    { <<>>, <<"d", "a", "t", "a", "-">>, <<"a", "r", "i", "a", "-">>, <<"x", "l", "i", "n", "k", ":">>, <<"x", "m", "l", ":">>, <<"-", "-">> }

NameChars == {"a", "b", "-", "_", ":"}

\* plain, kebab-case and snake_case names, names with a data-, aria-, xlink:
\* or xml: prefix, names that start with "--", and the names of the table
\* (none is a property of Object.prototype)
AttributeNames ==
    {p \o b : p \in NamePrefixes,
              b \in UNION {[1..n -> NameChars] : n \in 1..MaxNameBody}}
    \cup {specialCases[i].name : i \in 1..Len(specialCases)}

\* the module is loaded, nothing has been processed
AttributeStart ==
    /\ processedOnce = <<>>
    /\ processedTwice = <<>>
    /\ camelCaseCache = {}
    /\ attrPc = "start"

InitAttribute == attrName \in AttributeNames /\ AttributeStart

AttributeQuiet == attrName = <<"a">> /\ AttributeStart

----------------------------------------------------------------------------
\* AIDesignAnalyzer: inputs and initial state.
\* A name is a sequence of one-character strings.
MaxNodes == 1          \* nodes of a call of analyzeDesignPatterns
MaxNodeChildren == 3   \* children of a node

NoBox == [present |-> FALSE, x |-> 0, y |-> 0, width |-> 0, height |-> 0]

Box(x, y, width, height) ==
    [present |-> TRUE, x |-> x, y |-> y, width |-> width, height |-> height]

ChildOk ==
    [type |-> "TEXT", name |-> <<"O", "k">>, absoluteBoundingBox |-> Box(0, 0, 40, 20)]
ChildLabel ==
    [type |-> "TEXT", name |-> <<"L", "a", "b", "e", "l">>,
     absoluteBoundingBox |-> Box(0, 50, 40, 20)]
ChildInput ==
    [type |-> "RECTANGLE", name |-> <<"I", "n", "p", "u", "t">>,
     absoluteBoundingBox |-> Box(100, 100, 40, 20)]
ChildIcon ==
    [type |-> "VECTOR", name |-> <<"I", "c", "o", "n">>, absoluteBoundingBox |-> NoBox]

\* the children of a node: none, a text, a column of two or three, three
\* that are not laid out in a line, and a longer list
ChildLists ==
    {l \in { <<>>, <<ChildOk>>, <<ChildOk, ChildLabel>>,
             <<ChildOk, ChildLabel, ChildInput>>, <<ChildIcon, ChildOk, ChildInput>>,
             <<ChildOk, ChildLabel, ChildInput, ChildIcon>> } :
        Len(l) <= MaxNodeChildren}

NodeTypes == {"FRAME", "RECTANGLE", "GROUP"}

NodeNames == { <<"B", "u", "t", "t", "o", "n">>, <<"N", "a", "v">>, <<"B", "o", "x">> }

NodeBoxes == {NoBox, Box(0, 0, 60, 40), Box(0, 0, 100, 50)}

\* fills is the number of fills of the node; children is <<>> for a node
\* without children
FigmaNodes ==
    [type : NodeTypes, name : NodeNames, fills : {0, 1},
     absoluteBoundingBox : NodeBoxes,
     children : ChildLists]

\* const patterns = [], before the first round of the loop
AnalyzerStart ==
    /\ nodeIndex = 1
    /\ patterns = <<>>
    /\ patternOf = <<>>
    /\ analyzerPc = "looping"

InitAnalyzer ==
    /\ nodes \in UNION {[1..n -> FigmaNodes] : n \in 0..MaxNodes}
    /\ AnalyzerStart

AnalyzerQuiet == nodes = <<>> /\ AnalyzerStart

----------------------------------------------------------------------------
\* QualityAssessor: inputs and initial state.
\* A text is a sequence of one-character strings.
MaxCodeTokens == 2     \* pieces of a component text

CodeInterface == <<"i", "n", "t", "e", "r", "f", "a", "c", "e">>
CodeAria == <<"a", "r", "i", "a", "-">>
CodeFunction == <<"f", "u", "n", "c", "t", "i", "o", "n">>
CodeComment == <<"/", "/">>
CodeEval == <<"e", "v", "a", "l", "(">>
CodeInnerHtml == <<"d", "a", "n", "g", "e", "r", "o", "u", "s", "l", "y", "S", "e", "t", "I", "n", "n", "e", "r", "H", "T", "M", "L">>
CodeDocumentWrite == <<"d", "o", "c", "u", "m", "e", "n", "t", ".", "w", "r", "i", "t", "e">>
CodeDiv == <<"d", "i", "v">>

CodeTokens ==
    {CodeInterface, CodeAria, CodeFunction, CodeComment, CodeEval, CodeInnerHtml,
     CodeDocumentWrite, CodeDiv}

\* a string value, or undefined
Text(chars) == [t |-> "string", s |-> chars]
NoText == [t |-> "undefined", s |-> <<>>]

ComponentTexts ==
    {Text(Flatten(b)) : b \in UNION {[1..n -> CodeTokens] : n \in 0..MaxCodeTokens}}
    \cup {NoText}

StyleTexts == {NoText, Text(<<"1", "r", "e", "m">>)}

QualityCodes == [componentCode : ComponentTexts, styleCode : StyleTexts]

QualityConfigs ==
    [typescript : BOOLEAN, unitTests : BOOLEAN, treeshaking : BOOLEAN,
     codesplitting : BOOLEAN, lazyLoading : BOOLEAN]

NoAssessment ==
    [overall |-> [n |-> 0, d |-> 1],
     categories |-> [visual |-> 0, code |-> 0, performance |-> 0,
                     accessibility |-> 0, maintainability |-> 0, security |-> 0],
     issues |-> <<>>, recommendations |-> <<>>, aiSuggestions |-> <<>>]

\* the call has been made, nothing is computed yet
QualityStart == assessment = NoAssessment /\ assessPc = "called"

InitQuality ==
    /\ qualityCode \in QualityCodes
    /\ qualityConfig \in QualityConfigs
    /\ QualityStart

QualityQuiet ==
    /\ QualityStart
    /\ qualityCode = [componentCode |-> NoText, styleCode |-> NoText]
    /\ qualityConfig = [typescript |-> FALSE, unitTests |-> FALSE,
                        treeshaking |-> FALSE, codesplitting |-> FALSE,
                        lazyLoading |-> FALSE]

----------------------------------------------------------------------------
\* Figma input: inputs and initial state.
MaxFigmaChildren == 2   \* nodes of a children array

\* the nodes of a children array: one that extractShapes draws and one it
\* does not; nodes of the model have no children of their own
FigmaItems ==
    { [type |-> "RECTANGLE", hasBox |-> TRUE], [type |-> "GROUP", hasBox |-> FALSE] }

\* a children value: an array of nodes, or a truthy value that is no array
ChildrenValues ==
    [isArray : {TRUE}, items : UNION {[1..n -> FigmaItems] : n \in 0..MaxFigmaChildren}]
    \cup {[isArray |-> FALSE, items |-> <<>>]}

\* where the children are: figmaData.document.children ("direct"),
\* figmaData.file.document.children ("wrapped"),
\* figmaData.data.file.document.children ("complex"), figmaData.children
\* ("root"); an object with none of these ("other"); null
KnownShapes == {"direct", "wrapped", "complex", "root"}

FigmaInputs ==
    [shape : KnownShapes, children : ChildrenValues]
    \cup [shape : {"other", "null"}, children : {[isArray |-> FALSE, items |-> <<>>]}]

NoSvg == [kind |-> "none", shapes |-> 0, message |-> ""]
NoAnalysis == [kind |-> "none", nodes |-> <<>>]

FigmaStart == extractedSvg = NoSvg /\ analysis = NoAnalysis

InitFigma == figmaData \in FigmaInputs /\ FigmaStart

FigmaQuiet ==
    /\ figmaData = [shape |-> "null", children |-> [isArray |-> FALSE, items |-> <<>>]]
    /\ FigmaStart

----------------------------------------------------------------------------
\* framework adapters: inputs and initial state.
MaxJsxTokens == 2   \* pieces of a JSX text

JsxTokens ==
    { <<"<", "s", "v", "g">>,
      <<" ", "c", "l", "a", "s", "s", "N", "a", "m", "e", "=", "'", "a", "'">>,
      <<" ", "o", "n", "C", "l", "i", "c", "k", "=", "{", "h", "}">>,
      <<" ", "{", ".", ".", ".", "p", "r", "o", "p", "s", "}">>,
      <<">", "{", "x", "}">> }

JsxCodes == {Flatten(b) : b \in UNION {[1..n -> JsxTokens] : n \in 0..MaxJsxTokens}}

\* the values the type allows at either entry point, and one it does not
FrameworkValues == {"react", "vue", "angular", "svelte", "html", "preact"}

NoCode == [kind |-> "none", adapter |-> "", code |-> <<>>]

FrameworkStart == adapterResult = NoCode /\ transformerResult = NoCode

InitFramework ==
    /\ jsxCode \in JsxCodes
    /\ framework \in FrameworkValues
    /\ passProps \in BOOLEAN
    /\ svgToJsxThrows \in BOOLEAN
    /\ FrameworkStart

FrameworkQuiet ==
    /\ jsxCode = <<>>
    /\ framework = "react"
    /\ passProps = FALSE
    /\ svgToJsxThrows = FALSE
    /\ FrameworkStart

----------------------------------------------------------------------------
\* ErrorHandler and executeWithRetry: inputs and initial state.
MaxErrors == 2    \* handleError calls between two clears
MaxRetries == 3   \* largest config.retries

NoStep == "undefined"

\* new FigmaStepsError(code, message, details, step) and new Error(message)
FigmaStepsErrors ==
    [figma : {TRUE}, code : {"FIGMA_CONNECTION_FAILED", "TEST_ERROR", ""},
     message : {"Test message", ""}, step : {"step1"}]

GenericErrors ==
    [figma : {FALSE}, code : {""}, message : {"Generic error", ""}, step : {NoStep}]

HandledErrors == FigmaStepsErrors \cup GenericErrors

StepArguments == {NoStep, "step2"}

\* what an operation of executeWithRetry rejects with
OperationErrors ==
    { [figma |-> FALSE, code |-> "", message |-> "Generic error", step |-> NoStep],
      [figma |-> TRUE, code |-> "NETWORK_ERROR", message |-> "offline", step |-> NoStep] }

\* the error of the timeout promise
TimeoutError ==
    [figma |-> TRUE, code |-> "OPERATION_TIMEOUT", message |-> "Operation timed out after 30000ms",
     step |-> NoStep]

NoError == [figma |-> FALSE, code |-> "", message |-> "undefined", step |-> NoStep]
RetryPending == [kind |-> "pending", attempt |-> 0, error |-> NoError]

ErrorsStart ==
    /\ errorLog = <<>>
    /\ handledErrors = <<>>
    /\ returnedMessages = <<>>
    /\ attempt = 0
    /\ operations = <<>>
    /\ lastError = NoError
    /\ retryOutcome = RetryPending
    /\ retryPc = "idle"

InitErrors == retries \in 0..MaxRetries /\ ErrorsStart

ErrorsQuiet == retries = 1 /\ ErrorsStart

----------------------------------------------------------------------------
\* two runs on the shared largeSvgHandler: inputs and initial state.
MaxRunChunks == 2   \* chunks of a run

LargeRuns == {1, 2}

SharedStart ==
    /\ sharedController = 0
    /\ controllers = <<>>
    /\ largePc = [r \in LargeRuns |-> "idle"]
    /\ largeDone = [r \in LargeRuns |-> 0]
    /\ cancelSeen = [r \in LargeRuns |-> FALSE]
    /\ processedAfterCancel = [r \in LargeRuns |-> FALSE]

InitShared ==
    /\ largeChunks \in [LargeRuns -> 1..MaxRunChunks]
    /\ tooLarge \in [LargeRuns -> BOOLEAN]
    /\ SharedStart

SharedQuiet ==
    /\ largeChunks = [r \in LargeRuns |-> 1]
    /\ tooLarge = [r \in LargeRuns |-> FALSE]
    /\ SharedStart

----------------------------------------------------------------------------
\* batch processing: inputs and initial state.
MaxFiles == 3     \* files in the queue
MaxBatches == 2   \* calls of startBatchProcessing

\* a file as ADD_FIGMA_FILE adds it
IdleFile(id) == [id |-> id, status |-> "idle"]

\* initialState.stepData.batchProcessing with n files added
QueueOf(n) ==
    [isActive |-> FALSE, files |-> [i \in 1..n |-> IdleFile(i)], currentFileIndex |-> 0,
     totalProgress |-> 0, successCount |-> 0, errorCount |-> 0,
     completedFiles |-> <<>>, failedFiles |-> <<>>]

BatchStart ==
    /\ capturedBatch = batchProcessing
    /\ batchIndex = 0
    /\ batchesRun = 0
    /\ batchPc = "idle"

InitBatch ==
    /\ batchProcessing \in {QueueOf(n) : n \in 0..MaxFiles}
    /\ BatchStart

BatchQuiet ==
    /\ batchProcessing = QueueOf(0)
    /\ BatchStart

----------------------------------------------------------------------------
\* nothing but the cache and the engine is in use
OlderQuiet == WorkerQuiet /\ AssemblerQuiet /\ IngestQuiet /\ TextQuiet

PureQuiet == SanitizeQuiet /\ AttributeQuiet /\ AnalyzerQuiet /\ QualityQuiet

\* initial states of the remaining subsystems
LateQuiet == FigmaQuiet /\ FrameworkQuiet /\ ErrorsQuiet /\ SharedQuiet /\ BatchQuiet

InitFigmaInput ==
    /\ InitCache /\ InitEngine /\ OlderQuiet /\ PureQuiet
    /\ InitFigma /\ FrameworkQuiet /\ ErrorsQuiet /\ SharedQuiet /\ BatchQuiet

InitAdapting ==
    /\ InitCache /\ InitEngine /\ OlderQuiet /\ PureQuiet
    /\ InitFramework /\ FigmaQuiet /\ ErrorsQuiet /\ SharedQuiet /\ BatchQuiet

InitHandling ==
    /\ InitCache /\ InitEngine /\ OlderQuiet /\ PureQuiet
    /\ InitErrors /\ FigmaQuiet /\ FrameworkQuiet /\ SharedQuiet /\ BatchQuiet

InitSharing ==
    /\ InitCache /\ InitEngine /\ OlderQuiet /\ PureQuiet
    /\ InitShared /\ FigmaQuiet /\ FrameworkQuiet /\ ErrorsQuiet /\ BatchQuiet

InitBatching ==
    /\ InitCache /\ InitEngine /\ OlderQuiet /\ PureQuiet
    /\ InitBatch /\ FigmaQuiet /\ FrameworkQuiet /\ ErrorsQuiet /\ SharedQuiet

RestQuiet == OlderQuiet /\ PureQuiet /\ LateQuiet

Init == InitCache /\ InitEngine /\ RestQuiet

InitWorkers ==
    /\ InitCache /\ InitEngine /\ InitWorker /\ AssemblerQuiet /\ IngestQuiet
    /\ TextQuiet /\ PureQuiet /\ LateQuiet

InitAssembling ==
    /\ InitCache /\ InitEngine /\ WorkerQuiet /\ InitAssembler /\ IngestQuiet
    /\ TextQuiet /\ PureQuiet /\ LateQuiet

InitIngestion ==
    /\ InitCache /\ InitEngine /\ WorkerQuiet /\ AssemblerQuiet /\ InitIngest
    /\ TextQuiet /\ PureQuiet /\ LateQuiet

InitTexts ==
    /\ InitCache /\ InitEngine /\ WorkerQuiet /\ AssemblerQuiet /\ IngestQuiet
    /\ InitText /\ PureQuiet /\ LateQuiet

InitSanitizing ==
    /\ InitCache /\ InitEngine /\ OlderQuiet
    /\ InitSanitize /\ AttributeQuiet /\ AnalyzerQuiet /\ QualityQuiet /\ LateQuiet

InitAttributes ==
    /\ InitCache /\ InitEngine /\ OlderQuiet
    /\ SanitizeQuiet /\ InitAttribute /\ AnalyzerQuiet /\ QualityQuiet /\ LateQuiet

InitAnalyzing ==
    /\ InitCache /\ InitEngine /\ OlderQuiet
    /\ SanitizeQuiet /\ AttributeQuiet /\ InitAnalyzer /\ QualityQuiet /\ LateQuiet

InitAssessing ==
    /\ InitCache /\ InitEngine /\ OlderQuiet
    /\ SanitizeQuiet /\ AttributeQuiet /\ AnalyzerQuiet /\ InitQuality /\ LateQuiet

\* Date.now() advances
Tick ==
    /\ now < MaxTicks * TickStep
    /\ now' = now + TickStep
    /\ UNCHANGED <<restVars, cache, currentCacheSize, engineVars>>

----------------------------------------------------------------------------
\* Direct use of the MemoryManager API
Keys   == {1, 2, 3}
Values == {1, 2}

CacheSet(k, v, s) ==
    LET r == set(cache, currentCacheSize, k, Data(v, s), s, now)
    IN  /\ cache' = r.cache
        /\ currentCacheSize' = r.size
        /\ UNCHANGED <<restVars, now, engineVars>>

CacheGet(k) ==
    LET r == get(cache, currentCacheSize, k, now)
    IN  /\ cache' = r.cache
        /\ currentCacheSize' = r.size
        /\ UNCHANGED <<restVars, now, engineVars>>

\* clear()
CacheClear ==
    /\ cache' = <<>>
    /\ currentCacheSize' = 0
    /\ UNCHANGED <<restVars, now, engineVars>>

NextCache ==
    \/ \E k \in Keys, v \in Values, s \in Sizes : CacheSet(k, v, s)
    \/ \E k \in Keys : CacheGet(k)
    \/ CacheClear
    \/ Tick

SpecCache == Init /\ [][NextCache]_vars

----------------------------------------------------------------------------
\* EnhancedCodeGenerationEngine.generateCode

\* Math.random().toString(36).substr(2, 9): the suffixes two calls can draw
RandomSuffixes == {1, 2}

\* sizes of a serialized GeneratedCode (MiB)
ResultSizes == {20}

\* `gen_${Date.now()}_${random}`: an injective encoding of (time, suffix)
generateSessionId(t, rnd) == t * 10 + rnd

\* `generation-${sessionId}`: injective in the session id
CacheKey(sid) == sid

\* lines 211-226: the result object of run r
GeneratedCode(r, sid, s) == [val |-> r, size |-> s, id |-> sid]

\* percentage handed to progressCallback when the named phase starts
ProgressSwapped(phase) ==
    CASE phase = "analyzing"  -> 10
      [] phase = "planning"   -> 30
      [] phase = "generating" -> 50
      [] phase = "adapting"   -> 85
      [] phase = "assessing"  -> 70
      [] phase = "assembling" -> 95
      [] phase = "complete"   -> 100

ProgressAt(phase) ==
    CASE phase = "analyzing"  -> 10
      [] phase = "planning"   -> 30
      [] phase = "generating" -> 50
      [] phase = "adapting"   -> 70
      [] phase = "assessing"  -> 85
      [] phase = "assembling" -> 95
      [] phase = "complete"   -> 100

\* progressCallback?.(pct, label)
progressCallback(r, phase) ==
    progress' = [progress EXCEPT ![r] = Append(@, ProgressAt(phase))]

\* catch (error) { throw error; }
RethrowWrapped(e) == "wrapped"

Rethrow(e) == e

\* finally { this.generationQueue.delete(sessionId); }
FinallyClearAll(q, sid) == <<>>

Finally(q, sid) == MapDelete(q, sid)

InFlight(r) == pc[r] \notin {"idle", "done", "failed"}

\* lines 167-182: id, context, queue entry, first callback, analysis started
Start(r, rnd) ==
    /\ pc[r] = "idle"
    /\ \A q \in Runs : q < r => pc[q] # "idle"
    /\ LET sid == generateSessionId(now, rnd)
       IN  /\ sessionId' = [sessionId EXCEPT ![r] = sid]
           /\ generationQueue' = MapSet(generationQueue, [key |-> sid, ctx |-> r])
    /\ progressCallback(r, "analyzing")
    /\ pc' = [pc EXCEPT ![r] = "analyzing"]
    /\ UNCHANGED <<restVars, cacheVars, thrown, result, outcome, stored, evicted>>

\* the awaited phase `from` completes; the next callback fires and the next
\* phase `to` is started
Advance(r, from, to) ==
    /\ pc[r] = from
    /\ progressCallback(r, to)
    /\ pc' = [pc EXCEPT ![r] = to]
    /\ UNCHANGED <<restVars, cacheVars, sessionId, thrown, result, outcome, generationQueue,
                   stored, evicted>>

\* the awaited phase (or the synchronous code after it) throws e:
\* catch rethrows, finally removes the queue entry
Fail(r, from, e) ==
    /\ pc[r] = from
    /\ thrown' = [thrown EXCEPT ![r] = e]
    /\ outcome' = [outcome EXCEPT ![r] =
                     [kind |-> "rejected", value |-> null, error |-> Rethrow(e)]]
    /\ generationQueue' = Finally(generationQueue, sessionId[r])
    /\ sessionId' = [sessionId EXCEPT ![r] = 0]
    /\ result' = [result EXCEPT ![r] = null]
    /\ pc' = [pc EXCEPT ![r] = "failed"]
    /\ UNCHANGED <<restVars, cacheVars, progress, stored, evicted>>

\* analyzeFigmaDesign catches everything it throws: it always resolves
AnalyzeDone(r) == Advance(r, "analyzing", "planning")

PlanDone(r) == Advance(r, "planning", "generating")

PlanFail(r) == Fail(r, "planning", "planError")

\* generateComponents: the worker answered SUCCESS
GenerateDone(r) == Advance(r, "generating", "adapting")

\* generateComponents: worker not initialized, ERROR answer or task timeout
GenerateFail(r) == Fail(r, "generating", "workerError")

AdaptDone(r) == Advance(r, "adapting", "assessing")

AdaptFail(r) == Fail(r, "adapting", "adaptError")

AssessDone(r) == Advance(r, "assessing", "assembling")

AssessFail(r) == Fail(r, "assessing", "assessError")

\* assembleFinalCode resolved, calculateMetrics returned, validateBuild started
AssembleDone(r) ==
    /\ pc[r] = "assembling"
    /\ pc' = [pc EXCEPT ![r] = "validating"]
    /\ UNCHANGED <<restVars, cacheVars, sessionId, progress, thrown, result, outcome,
                   generationQueue, stored, evicted>>

\* assembleFinalCode rejected, or calculateMetrics threw
AssembleFail(r) ==
    \E e \in {"assembleError", "metricsError"} : Fail(r, "assembling", e)

\* validateBuild resolved; the result object is built; memoryManager.store
\* runs set() to its end before generateCode is suspended again
ValidateDone(r, s) ==
    /\ pc[r] = "validating"
    /\ LET res == GeneratedCode(r, sessionId[r], s)
           c   == set(cache, currentCacheSize, CacheKey(sessionId[r]), res, s, now)
       IN  /\ result' = [result EXCEPT ![r] = res]
           /\ cache' = c.cache
           /\ currentCacheSize' = c.size
           /\ evicted' = (evicted \cup
                          {q \in Runs : \E i \in 1..Len(cache) :
                              /\ cache[i].data.val = q
                              /\ cache[i].key \notin MapKeys(c.cache)})
    /\ stored' = stored \cup {r}
    /\ pc' = [pc EXCEPT ![r] = "storing"]
    /\ UNCHANGED <<restVars, now, sessionId, progress, thrown, outcome,
                   generationQueue>>

\* validateBuild resolved; JSON.stringify in set() throws before the cache
\* is touched, so store() returns a rejected promise
StoreThrows(r, s) ==
    /\ pc[r] = "validating"
    /\ result' = [result EXCEPT ![r] = GeneratedCode(r, sessionId[r], s)]
    /\ pc' = [pc EXCEPT ![r] = "storeRejected"]
    /\ UNCHANGED <<restVars, cacheVars, sessionId, progress, thrown, outcome,
                   generationQueue, stored, evicted>>

ValidateFail(r) == Fail(r, "validating", "validateError")

StoreFail(r) == Fail(r, "storeRejected", "storeError")

\* store resolved: last callback, return result, finally
StoreDone(r) ==
    /\ pc[r] = "storing"
    /\ progressCallback(r, "complete")
    /\ outcome' = [outcome EXCEPT ![r] =
                     [kind |-> "resolved", value |-> result[r], error |-> "none"]]
    /\ generationQueue' = Finally(generationQueue, sessionId[r])
    /\ sessionId' = [sessionId EXCEPT ![r] = 0]
    /\ pc' = [pc EXCEPT ![r] = "done"]
    /\ UNCHANGED <<restVars, cacheVars, thrown, result, stored, evicted>>

\* a later lookup of the cache key of the session of a result
Lookup(r) ==
    /\ r \in stored
    /\ LET g == get(cache, currentCacheSize, CacheKey(result[r].id), now)
       IN  /\ cache' = g.cache
           /\ currentCacheSize' = g.size
           /\ evicted' = evicted \cup
                          {q \in Runs : \E i \in 1..Len(cache) :
                              /\ cache[i].data.val = q
                              /\ cache[i].key \notin MapKeys(g.cache)}
    /\ UNCHANGED <<restVars, now, pc, sessionId, progress, thrown, result, outcome,
                   generationQueue, stored>>

NextEngine ==
    \/ \E r \in Runs, rnd \in RandomSuffixes : Start(r, rnd)
    \/ \E r \in Runs :
          \/ AnalyzeDone(r)
          \/ PlanDone(r) \/ PlanFail(r)
          \/ GenerateDone(r) \/ GenerateFail(r)
          \/ AdaptDone(r) \/ AdaptFail(r)
          \/ AssessDone(r) \/ AssessFail(r)
          \/ AssembleDone(r) \/ AssembleFail(r)
          \/ \E s \in ResultSizes : ValidateDone(r, s) \/ StoreThrows(r, s)
          \/ ValidateFail(r)
          \/ StoreDone(r) \/ StoreFail(r)
          \/ Lookup(r)
    \/ Tick

SpecEngine == Init /\ [][NextEngine]_vars

----------------------------------------------------------------------------
\* WorkerManager

outsideWorker == <<cacheVars, engineVars, assemblerVars, ingestVars, textVars, pureVars,
    lateVars>>

\* resolve(...) or reject(...) of task t's promise: only the first call
\* settles it
Settle(p, t, state, reason) ==
    [p EXCEPT ![t] = IF @.state = "pending"
                     THEN [state |-> state, reason |-> reason]
                     ELSE @]

\* executeTask(type, payload), task t drawing the id `id`
ExecuteTask(t, id) ==
    /\ promise[t].state = "none"
    /\ \A u \in Tasks : u < t => promise[u].state # "none"
    /\ IF worker = "null"
       THEN \* throw new Error('Worker not initialized')
            /\ promise' = [promise EXCEPT ![t] =
                             [state |-> "rejected", reason |-> "notInitialized"]]
            /\ settleCalls' = [settleCalls EXCEPT ![t] = @ + 1]
            /\ UNCHANGED <<pendingTasks, taskId, timer, toWorker>>
       ELSE /\ taskId' = [taskId EXCEPT ![t] = id]
            /\ promise' = [promise EXCEPT ![t] =
                             [state |-> "pending", reason |-> "none"]]
            /\ pendingTasks' = MapSet(pendingTasks, [key |-> id, ctx |-> t])
            /\ toWorker' = Append(toWorker, [id |-> id, from |-> t])
            /\ timer' = [timer EXCEPT ![t] = "armed"]
            /\ UNCHANGED settleCalls
    /\ UNCHANGED <<worker, fromWorker, outsideWorker>>

\* the worker's message listener handles the oldest message and posts one
\* result, SUCCESS or ERROR
WorkerAnswers(type) ==
    /\ worker = "alive"
    /\ toWorker # <<>>
    /\ fromWorker' = Append(fromWorker,
                        [id |-> Head(toWorker).id, type |-> type,
                         from |-> Head(toWorker).from])
    /\ toWorker' = Tail(toWorker)
    /\ UNCHANGED <<worker, pendingTasks, promise, taskId, timer, settleCalls,
                   outsideWorker>>

\* the 'message' listener of the manager receives the oldest result
OnMessage ==
    /\ fromWorker # <<>>
    /\ LET m == Head(fromWorker)
       IN  IF MapHas(pendingTasks, m.id)
           THEN LET t == MapGet(pendingTasks, m.id).ctx
                IN  /\ pendingTasks' = MapDelete(pendingTasks, m.id)
                    /\ promise' = IF m.type = "SUCCESS"
                                  THEN Settle(promise, t, "resolved", "result")
                                  ELSE Settle(promise, t, "rejected", "error")
                    /\ settleCalls' = [settleCalls EXCEPT ![t] = @ + 1]
           ELSE UNCHANGED <<pendingTasks, promise, settleCalls>>
    /\ fromWorker' = Tail(fromWorker)
    /\ UNCHANGED <<worker, taskId, timer, toWorker, outsideWorker>>

\* the setTimeout callback of task t runs, 30 s after executeTask
Timeout(t) ==
    /\ timer[t] = "armed"
    /\ timer' = [timer EXCEPT ![t] = "fired"]
    /\ IF MapHas(pendingTasks, taskId[t])
       THEN /\ pendingTasks' = MapDelete(pendingTasks, taskId[t])
            /\ promise' = Settle(promise, t, "rejected", "timeout")
            /\ settleCalls' = [settleCalls EXCEPT ![t] = @ + 1]
       ELSE UNCHANGED <<pendingTasks, promise, settleCalls>>
    /\ UNCHANGED <<worker, taskId, toWorker, fromWorker, outsideWorker>>

\* terminate(): the worker is stopped with the messages it has not handled;
\* results it has already posted may still be delivered
Terminate ==
    /\ worker' = "null"
    /\ toWorker' = <<>>
    /\ pendingTasks' = <<>>
    /\ UNCHANGED <<promise, taskId, timer, settleCalls, fromWorker, outsideWorker>>

NextWorker ==
    \/ \E t \in Tasks, id \in TaskIds : ExecuteTask(t, id)
    \/ \E type \in {"SUCCESS", "ERROR"} : WorkerAnswers(type)
    \/ OnMessage
    \/ \E t \in Tasks : Timeout(t)
    \/ Terminate

SpecWorker == InitWorkers /\ [][NextWorker]_vars

----------------------------------------------------------------------------
\* CodeAssembler

outsideAssembler == <<cacheVars, engineVars, workerVars, ingestVars, textVars, pureVars,
    lateVars>>

\* JavaScript truthiness of a string, undefined or null
Truthy(v) == v.t = "string" /\ v.s # ""

\* a ?? b
NullishOr(a, b) == IF a.t \in {"undefined", "null"} THEN b ELSE a

\* a || b
Or(a, b) == IF Truthy(a) THEN a ELSE b

generateFallbackJSX(cfg) ==
    Str("import React from 'react'; const GeneratedComponent"
        \o (IF cfg.typescript THEN ": React.FC" ELSE "")
        \o " = () => { return (<div className=\"generated-component\">"
        \o "<h1>Generated Component</h1></div>); }; "
        \o "export default GeneratedComponent;")

generateFallbackCSS(cfg) ==
    Str(".generated-component { padding: 20px; } "
        \o ".generated-component h1 { color: #333; } "
        \o ".generated-component p { color: #666; }")

\* the part of the component code shown is its first 200 characters: all of
\* it for the codes of this model
generatePreview(componentCode) ==
    "<!DOCTYPE html><pre><code>" \o componentCode.s \o "...</code></pre>"

CodeFile(path, name, content, language, extension) ==
    [path |-> path, name |-> name, content |-> content, language |-> language,
     size |-> Len(content.s), extension |-> extension]

assembleFinalCode(adapted, structure, cfg) ==
    LET componentContent == Or(adapted.componentCode, generateFallbackJSX(cfg))
        styleContent     == Or(adapted.styleCode, generateFallbackCSS(cfg))
    IN  [files |->
            << CodeFile("src/components/GeneratedComponent.tsx",
                        "GeneratedComponent.tsx", componentContent,
                        "typescript", ".tsx"),
               CodeFile("src/styles/generated.css", "generated.css",
                        styleContent, "css", ".css") >>,
         structure |-> structure,
         preview   |-> generatePreview(componentContent)]

\* const finalCode = await codeAssembler.assembleFinalCode(...)
Assemble ==
    /\ asmPc = "adapted"
    /\ finalCode' = assembleFinalCode(adaptedCode, "structure", config)
    /\ asmPc' = "assembled"
    /\ UNCHANGED <<adaptedCode, config, files, outsideAssembler>>

\* const result: GeneratedCode = { ..., files: finalCode.files, ... }
BuildResult ==
    /\ asmPc = "assembled"
    /\ files' = finalCode.files
    /\ asmPc' = "built"
    /\ UNCHANGED <<adaptedCode, config, finalCode, outsideAssembler>>

NextAssembler == Assemble \/ BuildResult

SpecAssembler == InitAssembling /\ [][NextAssembler]_vars

----------------------------------------------------------------------------
\* svgToJsx and LargeSvgHandler

outsideIngest == <<cacheVars, engineVars, workerVars, assemblerVars, textVars, pureVars,
    lateVars>>

\* !svg || typeof svg !== 'string'
InvalidInput(d) == d.kind # "string" \/ d.size = 0

\* only the handler's own limit is looked at
ExceedsMemoryOnly(size, max) == size > maxMemoryUsage

\* svgSize > mergedOptions.maxFileSize
ExceedsMaxFileSize(size, max) == size > max

\* svgSize > 1024 * 1024
IsLargeFile(d) == d.size > LARGE_FILE_THRESHOLD

LargeWarning == "Large SVG detected, using optimized processing"

\* the catch of svgToJsx: the message goes to errors, the result carries the
\* fallback markup
Fallback(message, warnings) ==
    [settled |-> "resolved", jsx |-> "fallback", errors |-> <<message>>,
     warnings |-> warnings, isLargeFile |-> FALSE]

\* the return of the try block
Converted(d, warnings) ==
    [settled |-> "resolved", jsx |-> "converted", errors |-> <<>>,
     warnings |-> warnings, isLargeFile |-> IsLargeFile(d)]

\* chunkSvgContent: number of chunks
chunkSvgContent(d) ==
    IF d.size > maxChunkSize * 2
    THEN d.elementChunks
    ELSE (d.size + maxChunkSize - 1) \div maxChunkSize

\* a value handed to onProgress: the rational n / d
Pct(n) == [n |-> n, d |-> 1]

\* 30 + (i / totalChunks) * 80
ChunkProgressWide(i, totalChunks) == [n |-> 30 * totalChunks + 80 * i, d |-> totalChunks]

\* 30 + (i / totalChunks) * 40
ChunkProgress(i, totalChunks) == [n |-> 30 * totalChunks + 40 * i, d |-> totalChunks]

\* onProgress?.(...): only the direct caller passes a callback
onProgress(values) ==
    reported' = IF caller = "processLargeSvg" THEN reported \o values ELSE reported

\* processLargeSvg rejects with `message`
Rejected(message) == [settled |-> "rejected", jsx |-> "none", error |-> message]

\* processLargeSvg resolves with { jsx, metrics }
Resolved == [settled |-> "resolved", jsx |-> "converted", error |-> "none"]

\* processLargeSvg rejects; when svgToJsx awaits it, its catch turns the
\* error into the fallback result
LargeFails(message) ==
    /\ largeResult' = Rejected(message)
    /\ conversion' = IF caller = "svgToJsx"
                     THEN Fallback(message, <<LargeWarning>>)
                     ELSE conversion
    /\ ipc' = "done"

\* processLargeSvg from its entry to its first suspension: size check,
\* abort controller, validateAndCleanSvg
EnterLarge ==
    IF svg.size > maxMemoryUsage
    THEN /\ LargeFails("File too large: exceeds maxMemoryUsage")
         /\ UNCHANGED <<abortController, steps, reported>>
    ELSE IF ~svg.hasSvg
    THEN \* validateAndCleanSvg throws; finally runs cleanup()
         /\ onProgress(<<Pct(5), Pct(10)>>)
         /\ LargeFails("Invalid SVG: No <svg> element found")
         /\ steps' = steps \cup {"validate"}
         /\ abortController' = "null"
    ELSE /\ onProgress(<<Pct(5), Pct(10)>>)
         /\ abortController' = "live"
         /\ steps' = steps \cup {"validate"}
         /\ ipc' = "chunking"
         /\ UNCHANGED <<conversion, largeResult>>

\* svgToJsx is called and runs to its first suspension: input check, size
\* check, routing; on the large path processLargeSvg runs its own size
\* check and validateAndCleanSvg
SvgToJsx ==
    /\ ipc = "called"
    /\ caller = "svgToJsx"
    /\ IF InvalidInput(svg)
       THEN /\ conversion' = Fallback("SVG input must be a non-empty string", <<>>)
            /\ ipc' = "done"
            /\ UNCHANGED <<abortController, steps, reported, largeResult>>
       ELSE IF ExceedsMaxFileSize(svg.size, options.maxFileSize)
       THEN /\ conversion' = Fallback("File too large: exceeds maxFileSize", <<>>)
            /\ ipc' = "done"
            /\ UNCHANGED <<abortController, steps, reported, largeResult>>
       ELSE IF IsLargeFile(svg) /\ options.enableLargeFileHandling
       THEN EnterLarge
       ELSE /\ steps' = steps \cup {"standard"}
            /\ ipc' = "standard"
            /\ UNCHANGED <<abortController, conversion, reported, largeResult>>
    /\ UNCHANGED <<svg, options, chunks, processedChunks, caller, cancelledAt,
                   outsideIngest>>

\* largeSvgHandler.processLargeSvg(svg, onProgress) is called directly
ProcessLargeSvg ==
    /\ ipc = "called"
    /\ caller = "processLargeSvg"
    /\ EnterLarge
    /\ UNCHANGED <<svg, options, chunks, processedChunks, caller, cancelledAt,
                   outsideIngest>>

\* processStandardSvg has resolved: metadata, return
StandardReturn ==
    /\ ipc = "standard"
    /\ conversion' = Converted(svg, <<>>)
    /\ ipc' = "done"
    /\ UNCHANGED <<svg, options, abortController, chunks, processedChunks, steps,
                   caller, reported, largeResult, cancelledAt, outsideIngest>>

\* onProgress(20); const chunks = await this.chunkSvgContent(validatedSvg)
ChunkSvgContent ==
    /\ ipc = "chunking"
    /\ onProgress(<<Pct(20)>>)
    /\ chunks' = chunkSvgContent(svg)
    /\ steps' = steps \cup {"chunk"}
    /\ ipc' = "chunked"
    /\ UNCHANGED <<svg, options, abortController, processedChunks, conversion,
                   caller, largeResult, cancelledAt, outsideIngest>>

\* onProgress(30) when processChunks is entered
EnterProcessChunks == IF ipc = "chunked" THEN <<Pct(30)>> ELSE <<>>

\* one round of the loop of processChunks: abort check, progress,
\* processChunk, push, then the 10 ms timer is awaited
ProcessChunk ==
    /\ ipc \in {"chunked", "processing"}
    /\ processedChunks < chunks
    /\ IF abortController = "aborted"
       THEN \* throw new Error('Processing aborted'); finally runs cleanup()
            /\ onProgress(EnterProcessChunks)
            /\ LargeFails("Processing aborted")
            /\ abortController' = "null"
            /\ UNCHANGED <<processedChunks, steps>>
       ELSE /\ onProgress(EnterProcessChunks
                          \o <<ChunkProgress(processedChunks, chunks)>>)
            /\ processedChunks' = processedChunks + 1
            /\ steps' = steps \cup {"processChunk"}
            /\ ipc' = "yielding"
            /\ UNCHANGED <<abortController, conversion, largeResult>>
    /\ UNCHANGED <<svg, options, chunks, caller, cancelledAt, outsideIngest>>

\* setTimeout(resolve, 10) fires
ChunkTimer ==
    /\ ipc = "yielding"
    /\ ipc' = "processing"
    /\ UNCHANGED <<svg, options, abortController, chunks, processedChunks, steps,
                   conversion, caller, reported, largeResult, cancelledAt,
                   outsideIngest>>

\* the loop is over: onProgress(80), combineChunks
CombineChunks ==
    /\ ipc \in {"chunked", "processing"}
    /\ processedChunks = chunks
    /\ onProgress(EnterProcessChunks \o <<Pct(80)>>)
    /\ steps' = steps \cup {"combine"}
    /\ ipc' = "optimizing"
    /\ UNCHANGED <<svg, options, abortController, chunks, processedChunks,
                   conversion, caller, largeResult, cancelledAt, outsideIngest>>

\* onProgress(95), optimizeJsx, onProgress(100), return of processLargeSvg
\* with cleanup(), return of svgToJsx
OptimizeJsx ==
    /\ ipc = "optimizing"
    /\ onProgress(<<Pct(95), Pct(100)>>)
    /\ steps' = steps \cup {"optimize"}
    /\ abortController' = "null"
    /\ largeResult' = Resolved
    /\ conversion' = IF caller = "svgToJsx"
                     THEN Converted(svg, <<LargeWarning>>)
                     ELSE conversion
    /\ ipc' = "done"
    /\ UNCHANGED <<svg, options, chunks, processedChunks, caller, cancelledAt,
                   outsideIngest>>

\* largeSvgHandler.cancel(): this.abortController?.abort()
Cancel ==
    /\ abortController = "live"
    /\ abortController' = "aborted"
    /\ cancelledAt' = ipc
    /\ UNCHANGED <<svg, options, ipc, chunks, processedChunks, steps, conversion,
                   caller, reported, largeResult, outsideIngest>>

NextIngest ==
    \/ SvgToJsx
    \/ ProcessLargeSvg
    \/ StandardReturn
    \/ ChunkSvgContent
    \/ ProcessChunk
    \/ ChunkTimer
    \/ CombineChunks
    \/ OptimizeJsx
    \/ Cancel

SpecIngest == InitIngestion /\ [][NextIngest]_vars

----------------------------------------------------------------------------
\* LargeSvgHandler and processStandardSvg on the text of a document

outsideText == <<cacheVars, engineVars, workerVars, assemblerVars, ingestVars, pureVars,
    lateVars>>

\* the text from position i on
From(s, i) == SubSeq(s, i, Len(s))

\* does pat occur in s at position i
At(s, pat, i) == i >= 1 /\ i + Len(pat) - 1 <= Len(s) /\ SubSeq(s, i, i + Len(pat) - 1) = pat

\* s.indexOf(pat, i), 1-based; 0 when there is none
IndexOfFrom(s, pat, i) ==
    IF \E j \in i..Len(s) : At(s, pat, j)
    THEN CHOOSE j \in i..Len(s) : At(s, pat, j) /\ \A k \in i..(j - 1) : ~At(s, pat, k)
    ELSE 0

\* s.includes(pat)
Includes(s, pat) == IndexOfFrom(s, pat, 1) # 0

\* s.replace(/pat/g, to) for a literal pattern
RECURSIVE ReplaceAll(_, _, _)
ReplaceAll(s, pat, to) ==
    LET j == IndexOfFrom(s, pat, 1)
    IN  IF j = 0 THEN s
        ELSE SubSeq(s, 1, j - 1) \o to \o ReplaceAll(From(s, j + Len(pat)), pat, to)

\* s.replace(/<!--[\s\S]*?-->/g, '')
RECURSIVE RemoveComments(_)
RemoveComments(s) ==
    LET j == IndexOfFrom(s, <<"<", "!", "-", "-">>, 1)
        k == IF j = 0 THEN 0 ELSE IndexOfFrom(s, <<"-", "-", ">">>, j + 4)
    IN  IF k = 0 THEN s
        ELSE SubSeq(s, 1, j - 1) \o RemoveComments(From(s, k + 3))

\* s.replace(/\s+/g, ' ')
CollapseWhitespace(s) ==
    SelectSeq([i \in 1..Len(s) |->
                  IF s[i] = " " /\ i > 1 /\ s[i - 1] = " " THEN "" ELSE s[i]],
              LAMBDA c : c # "")

\* s.trim()
RECURSIVE Trim(_)
Trim(s) ==
    IF s # <<>> /\ s[1] = " " THEN Trim(Tail(s))
    ELSE IF s # <<>> /\ s[Len(s)] = " " THEN Trim(SubSeq(s, 1, Len(s) - 1))
    ELSE s

\* fixUnbalancedTags rewrites only <path, <circle, <rect, <line and <ellipse
\* tags: the documents of the model hold none, it returns them as they are
fixUnbalancedTags(s) == s

\* validateAndCleanSvg: the cleaned text, or "invalid" when it throws
validateAndCleanSvg(s) ==
    LET cleaned == Trim(CollapseWhitespace(RemoveComments(s)))
    IN  IF ~Includes(cleaned, <<"<", "s", "v", "g">>)
        THEN [ok |-> FALSE, text |-> <<>>]
        ELSE [ok |-> TRUE, text |-> fixUnbalancedTags(cleaned)]

\* the first ">" at or after position i; 0 when there is none
NextClose(s, i) == IndexOfFrom(s, <<">">>, i)

\* /<([^>]+)>/g: the end of the match that starts at j, 0 when none starts there
ElementRegexEnd(s, j) ==
    IF j <= Len(s) /\ s[j] = "<" /\ NextClose(s, j + 1) >= j + 2
    THEN NextClose(s, j + 1)
    ELSE 0

\* the start of the leftmost match of /<([^>]+)>/ at or after position i
ElementRegexStart(s, i) ==
    IF \E j \in i..Len(s) : ElementRegexEnd(s, j) # 0
    THEN CHOOSE j \in i..Len(s) :
            ElementRegexEnd(s, j) # 0 /\ \A k \in i..(j - 1) : ElementRegexEnd(s, k) = 0
    ELSE 0

\* the loop of chunkByElements from position i with the chunks and the
\* current chunk built so far
RECURSIVE ChunkLoop(_, _, _, _, _)
ChunkLoop(s, i, chunkSize, done, currentChunk) ==
    LET j == ElementRegexStart(s, i)
    IN  IF j = 0
        THEN IF currentChunk # <<>> THEN Append(done, currentChunk) ELSE done
        ELSE LET e       == ElementRegexEnd(s, j)
                 element == SubSeq(s, j, e)
                 flush   == /\ Len(currentChunk) + Len(element) > chunkSize
                            /\ currentChunk # <<>>
             IN  ChunkLoop(s, e + 1, chunkSize,
                           IF flush THEN Append(done, currentChunk) ELSE done,
                           (IF flush THEN <<>> ELSE currentChunk) \o element)

chunkByElements(s, chunkSize) == ChunkLoop(s, 1, chunkSize, <<>>, <<>>)

\* every chunk is cut at the first boundary that fits
SliceAll(s, chunkSize) ==
    [k \in 1..((Len(s) + chunkSize - 1) \div chunkSize) |->
        SubSeq(s, (k - 1) * chunkSize + 1,
               IF k * chunkSize < Len(s) THEN k * chunkSize ELSE Len(s))]

\* chunkSvgContent
chunkText(s, chunkSize) ==
    IF Len(s) > chunkSize * 2
    THEN chunkByElements(s, chunkSize)
    ELSE SliceAll(s, chunkSize)

\* the attribute renames of processChunk and of processStandardSvg
AttributeRenames ==
    <<
      [from |-> <<"c", "l", "a", "s", "s", "=">>,
       to   |-> <<"c", "l", "a", "s", "s", "N", "a", "m", "e", "=">>],
      [from |-> <<"s", "t", "r", "o", "k", "e", "-", "w", "i", "d", "t", "h", "=">>,
       to   |-> <<"s", "t", "r", "o", "k", "e", "W", "i", "d", "t", "h", "=">>],
      [from |-> <<"f", "i", "l", "l", "-", "o", "p", "a", "c", "i", "t", "y", "=">>,
       to   |-> <<"f", "i", "l", "l", "O", "p", "a", "c", "i", "t", "y", "=">>],
      [from |-> <<"s", "t", "r", "o", "k", "e", "-", "o", "p", "a", "c", "i", "t", "y", "=">>,
       to   |-> <<"s", "t", "r", "o", "k", "e", "O", "p", "a", "c", "i", "t", "y", "=">>],
      [from |-> <<"s", "t", "r", "o", "k", "e", "-", "l", "i", "n", "e", "c", "a", "p", "=">>,
       to   |-> <<"s", "t", "r", "o", "k", "e", "L", "i", "n", "e", "c", "a", "p", "=">>],
      [from |-> <<"s", "t", "r", "o", "k", "e", "-", "l", "i", "n", "e", "j", "o", "i", "n", "=">>,
       to   |-> <<"s", "t", "r", "o", "k", "e", "L", "i", "n", "e", "j", "o", "i", "n", "=">>],
      [from |-> <<"s", "t", "r", "o", "k", "e", "-", "d", "a", "s", "h", "a", "r", "r", "a", "y", "=">>,
       to   |-> <<"s", "t", "r", "o", "k", "e", "D", "a", "s", "h", "a", "r", "r", "a", "y", "=">>],
      [from |-> <<"f", "o", "n", "t", "-", "f", "a", "m", "i", "l", "y", "=">>,
       to   |-> <<"f", "o", "n", "t", "F", "a", "m", "i", "l", "y", "=">>],
      [from |-> <<"f", "o", "n", "t", "-", "s", "i", "z", "e", "=">>,
       to   |-> <<"f", "o", "n", "t", "S", "i", "z", "e", "=">>],
      [from |-> <<"f", "o", "n", "t", "-", "w", "e", "i", "g", "h", "t", "=">>,
       to   |-> <<"f", "o", "n", "t", "W", "e", "i", "g", "h", "t", "=">>],
      [from |-> <<"t", "e", "x", "t", "-", "a", "n", "c", "h", "o", "r", "=">>,
       to   |-> <<"t", "e", "x", "t", "A", "n", "c", "h", "o", "r", "=">>],
      [from |-> <<"c", "l", "i", "p", "-", "p", "a", "t", "h", "=">>,
       to   |-> <<"c", "l", "i", "p", "P", "a", "t", "h", "=">>],
      [from |-> <<"f", "i", "l", "l", "-", "r", "u", "l", "e", "=">>,
       to   |-> <<"f", "i", "l", "l", "R", "u", "l", "e", "=">>] >>

\* the chain of .replace(/name=/g, 'newName=') calls
RECURSIVE RenameFrom(_, _)
RenameFrom(s, n) ==
    IF n > Len(AttributeRenames) THEN s
    ELSE RenameFrom(ReplaceAll(s, AttributeRenames[n].from, AttributeRenames[n].to),
                    n + 1)

processChunk(chunk) == RenameFrom(chunk, 1)

\* combineChunks: chunks.join('')
combineChunks(cs) ==
    LET F[i \in 0..Len(cs)] == IF i = 0 THEN <<>> ELSE F[i - 1] \o cs[i]
    IN  F[Len(cs)]

\* every pattern of optimizeJsx needs a double quote: the documents of the
\* model hold none, it returns them as they are
optimizeJsx(jsx) == jsx

\* processStandardSvg with passProps and passChildren off (the defaults)
processStandardSvg(s) == RenameFrom(s, 1)

\* /<[^\/][^>]*>/g: the end of the match that starts at j, 0 when none
OpenTagEnd(s, j) ==
    IF j + 1 <= Len(s) /\ s[j] = "<" /\ s[j + 1] # "/" /\ NextClose(s, j + 2) # 0
    THEN NextClose(s, j + 2)
    ELSE 0

\* (jsx.match(/<[^\/][^>]*>/g) || []).length, counted from position i
RECURSIVE CountOpenTags(_, _)
CountOpenTags(s, i) ==
    IF \E j \in i..Len(s) : OpenTagEnd(s, j) # 0
    THEN LET j == CHOOSE j \in i..Len(s) :
                    OpenTagEnd(s, j) # 0 /\ \A k \in i..(j - 1) : OpenTagEnd(s, k) = 0
         IN  1 + CountOpenTags(s, OpenTagEnd(s, j) + 1)
    ELSE 0

\* metadata.elementCount
elementCount(jsx) == CountOpenTags(jsx, 1)

\* const validatedSvg = await this.validateAndCleanSvg(svgContent)
ValidateText ==
    /\ textPc = "start"
    /\ LET v == validateAndCleanSvg(svgContent)
       IN  /\ validatedSvg' = v.text
           /\ textPc' = IF v.ok THEN "validated" ELSE "invalid"
    /\ UNCHANGED <<svgContent, chunkTexts, processedTexts, largeJsx, standardJsx,
                   outsideText>>

\* const chunks = await this.chunkSvgContent(validatedSvg)
ChunkText ==
    /\ textPc = "validated"
    /\ chunkTexts' = chunkText(validatedSvg, SmallChunkSize)
    /\ textPc' = "chunked"
    /\ UNCHANGED <<svgContent, validatedSvg, processedTexts, largeJsx, standardJsx,
                   outsideText>>

\* const processedChunks = await this.processChunks(chunks, onProgress)
ProcessTexts ==
    /\ textPc = "chunked"
    /\ processedTexts' = [i \in 1..Len(chunkTexts) |-> processChunk(chunkTexts[i])]
    /\ textPc' = "processed"
    /\ UNCHANGED <<svgContent, validatedSvg, chunkTexts, largeJsx, standardJsx,
                   outsideText>>

\* combineChunks and optimizeJsx
CombineTexts ==
    /\ textPc = "processed"
    /\ largeJsx' = optimizeJsx(combineChunks(processedTexts))
    /\ textPc' = "combined"
    /\ UNCHANGED <<svgContent, validatedSvg, chunkTexts, processedTexts, standardJsx,
                   outsideText>>

\* the same document through processStandardSvg
StandardText ==
    /\ textPc = "combined"
    /\ standardJsx' = processStandardSvg(svgContent)
    /\ textPc' = "done"
    /\ UNCHANGED <<svgContent, validatedSvg, chunkTexts, processedTexts, largeJsx,
                   outsideText>>

NextText ==
    \/ ValidateText
    \/ ChunkText
    \/ ProcessTexts
    \/ CombineTexts
    \/ StandardText

SpecText == InitTexts /\ [][NextText]_vars

----------------------------------------------------------------------------
\* The converters on element trees

outsideSanitize == <<cacheVars, engineVars, workerVars, assemblerVars, ingestVars,
                     textVars, attributeVars, analyzerVars, qualityVars, lateVars>>

\* lodash camelCase on the names of SourceAttributes
lodashCamelCase(name) == IF name = "stroke-width" THEN "strokeWidth" ELSE name

\* CUSTOM_ATTRIBUTES of transform.ts
CUSTOM_ATTRIBUTES == [class |-> "className", for |-> "htmlFor"]

\* the attribute name transform() writes for an attribute of the node
transformAttributeName(attributeName) ==
    IF attributeName \in DataOrAria THEN attributeName
    ELSE IF attributeName = "style" THEN attributeName
    ELSE IF attributeName \in DOMAIN CUSTOM_ATTRIBUTES
         THEN CUSTOM_ATTRIBUTES[attributeName]
    ELSE lodashCamelCase(attributeName)

\* transform(node) of the Tree Transformer: the tag name is kept, every
\* attribute is kept under its new name, the children are transformed
RECURSIVE transform(_)
transform(node) ==
    [tagName    |-> node.tagName,
     attributes |-> {transformAttributeName(a) : a \in node.attributes},
     children   |-> [i \in 1..Len(node.children) |-> transform(node.children[i])]]

\* the replace chain of processStandardSvg and processChunk, on an attribute
\* name followed by "=": a name that ends in one of the thirteen is rewritten
\* ("data-x" and "onclick" end in none of them)
ReplacedName(name) ==
    CASE name = "class"        -> "className"
      [] name = "stroke-width" -> "strokeWidth"
      [] OTHER                 -> name

\* the elements of the jsx text svgToJsx returns: the markup of the svg with
\* the attribute names replaced, every tag as it was
RECURSIVE convertMarkup(_)
convertMarkup(node) ==
    [tagName    |-> node.tagName,
     attributes |-> {ReplacedName(a) : a \in node.attributes},
     children   |-> [i \in 1..Len(node.children) |-> convertMarkup(node.children[i])]]

\* transform(parsedSvg)
TransformTree ==
    /\ converter = "none"
    /\ outputTree' = transform(sourceTree)
    /\ converter' = "transform"
    /\ UNCHANGED <<sourceTree, outsideSanitize>>

\* svgToJsx below the large-file threshold: processStandardSvg
ConvertStandard ==
    /\ converter = "none"
    /\ outputTree' = convertMarkup(sourceTree)
    /\ converter' = "processStandardSvg"
    /\ UNCHANGED <<sourceTree, outsideSanitize>>

\* svgToJsx above the threshold: processLargeSvg, processChunk on every chunk
ConvertChunked ==
    /\ converter = "none"
    /\ outputTree' = convertMarkup(sourceTree)
    /\ converter' = "processLargeSvg"
    /\ UNCHANGED <<sourceTree, outsideSanitize>>

NextSanitize ==
    \/ TransformTree
    \/ ConvertStandard
    \/ ConvertChunked

SpecSanitize == InitSanitizing /\ [][NextSanitize]_vars

----------------------------------------------------------------------------
\* processAttributeName, camelCase and unnamespaceAttributeName

outsideAttribute == <<cacheVars, engineVars, workerVars, assemblerVars, ingestVars,
                      textVars, sanitizeVars, analyzerVars, qualityVars, lateVars>>

LowerLetters ==
    <<"a", "b", "c", "d", "e", "f", "g", "h", "i", "j", "k", "l", "m",
      "n", "o", "p", "q", "r", "s", "t", "u", "v", "w", "x", "y", "z">>

UpperLetters ==
    <<"A", "B", "C", "D", "E", "F", "G", "H", "I", "J", "K", "L", "M",
      "N", "O", "P", "Q", "R", "S", "T", "U", "V", "W", "X", "Y", "Z">>

Digits == {"0", "1", "2", "3", "4", "5", "6", "7", "8", "9"}

Range(f) == {f[i] : i \in DOMAIN f}

\* /[a-z]/
IsLower(c) == c \in Range(LowerLetters)

\* char.toUpperCase()
toUpperCase(c) ==
    IF IsLower(c)
    THEN UpperLetters[CHOOSE i \in DOMAIN LowerLetters : LowerLetters[i] = c]
    ELSE c

\* the lower-case form a case-insensitive regex compares
toLowerCase(c) ==
    IF c \in Range(UpperLetters)
    THEN LowerLetters[CHOOSE i \in DOMAIN UpperLetters : UpperLetters[i] = c]
    ELSE c

\* /\w/
IsWordChar(c) ==
    c \in Range(LowerLetters) \cup Range(UpperLetters) \cup Digits \cup {"_"}

\* /^prefix/i.test(s)
TestPrefix(s, prefix) ==
    /\ Len(s) >= Len(prefix)
    /\ \A i \in 1..Len(prefix) : toLowerCase(s[i]) = prefix[i]

DATA_ATTRIBUTE(s) == TestPrefix(s, <<"d", "a", "t", "a", "-">>)
ARIA_ATTRIBUTE(s) == TestPrefix(s, <<"a", "r", "i", "a", "-">>)
XLINK_ATTRIBUTE(s) == TestPrefix(s, <<"x", "l", "i", "n", "k", ":">>)
XML_ATTRIBUTE(s) == TestPrefix(s, <<"x", "m", "l", ":">>)

\* string.replace(/(?:-|_)([a-z])/g, (_, char) => char.toUpperCase())
RECURSIVE ReplaceSeparators(_)
ReplaceSeparators(s) ==
    IF s = <<>> THEN <<>>
    ELSE IF Len(s) >= 2 /\ s[1] \in {"-", "_"} /\ IsLower(s[2])
         THEN <<toUpperCase(s[2])>> \o ReplaceSeparators(From(s, 3))
    ELSE <<s[1]>> \o ReplaceSeparators(Tail(s))

\* camelCase(string) with the cache it finds: the value and the cache after
camelCase(string, cached) ==
    IF \E e \in cached : e.key = string
    THEN [value |-> (CHOOSE e \in cached : e.key = string).value, cache |-> cached]
    ELSE LET replaced == IF Len(string) >= 2 /\ string[1] = "-" /\ string[2] = "-"
                       THEN string
                       ELSE ReplaceSeparators(string)
         IN  [value |-> replaced,
              cache |-> cached \cup {[key |-> string, value |-> replaced]}]

\* is position c the ":" of the leftmost match of /(\w+):(\w)/
ColonOfMatch(s, c) ==
    /\ c > 1 /\ c < Len(s)
    /\ s[c] = ":" /\ IsWordChar(s[c - 1]) /\ IsWordChar(s[c + 1])

\* name.replace(/(\w+):(\w)/i, (match, namespace, char) => namespace + char.toUpperCase())
unnamespaceAttributeName(s) ==
    IF \E c \in 1..Len(s) : ColonOfMatch(s, c)
    THEN LET c == CHOOSE c \in 1..Len(s) :
                    ColonOfMatch(s, c) /\ \A k \in 1..(c - 1) : ~ColonOfMatch(s, k)
         IN  SubSeq(s, 1, c - 1) \o <<toUpperCase(s[c + 1])>> \o From(s, c + 2)
    ELSE s

\* processAttributeName(name) with the cache it finds: the value and the
\* cache after
processAttributeName(s, cached) ==
    IF DATA_ATTRIBUTE(s) \/ ARIA_ATTRIBUTE(s)
    THEN [value |-> s, cache |-> cached]
    ELSE IF \E i \in 1..Len(specialCases) : specialCases[i].name = s
    THEN [value |-> specialCases[CHOOSE i \in 1..Len(specialCases) :
                                    specialCases[i].name = s].jsx,
          cache |-> cached]
    ELSE IF XLINK_ATTRIBUTE(s) \/ XML_ATTRIBUTE(s)
    THEN [value |-> unnamespaceAttributeName(s), cache |-> cached]
    ELSE camelCase(s, cached)

\* another caller (cssProperty) has camelCase fill the cache for the name
CamelCaseCall ==
    /\ attrPc = "start"
    /\ \A e \in camelCaseCache : e.key # attrName
    /\ camelCaseCache' = camelCase(attrName, camelCaseCache).cache
    /\ UNCHANGED <<attrName, processedOnce, processedTwice, attrPc, outsideAttribute>>

\* processAttributeName(name)
ProcessName ==
    /\ attrPc = "start"
    /\ LET r == processAttributeName(attrName, camelCaseCache)
       IN  /\ processedOnce' = r.value
           /\ camelCaseCache' = r.cache
    /\ attrPc' = "once"
    /\ UNCHANGED <<attrName, processedTwice, outsideAttribute>>

\* processAttributeName(processAttributeName(name))
ProcessNameAgain ==
    /\ attrPc = "once"
    /\ LET r == processAttributeName(processedOnce, camelCaseCache)
       IN  /\ processedTwice' = r.value
           /\ camelCaseCache' = r.cache
    /\ attrPc' = "twice"
    /\ UNCHANGED <<attrName, processedOnce, outsideAttribute>>

NextAttribute ==
    \/ CamelCaseCall
    \/ ProcessName
    \/ ProcessNameAgain

SpecAttribute == InitAttributes /\ [][NextAttribute]_vars

----------------------------------------------------------------------------
\* AIDesignAnalyzer.analyzeDesignPatterns

outsideAnalyzer == <<cacheVars, engineVars, workerVars, assemblerVars, ingestVars,
                     textVars, sanitizeVars, attributeVars, qualityVars, lateVars>>

\* name?.toLowerCase().includes(keyword)
NameIncludes(name, keyword) ==
    Includes([i \in 1..Len(name) |-> toLowerCase(name[i])], keyword)

isCardPattern(node) ==
    LET hasBackground       == node.fills > 0
        hasChildren         == Len(node.children) > 0
        hasRectangularShape == node.type = "FRAME" \/ node.type = "RECTANGLE"
    IN  hasBackground /\ hasChildren /\ hasRectangularShape

hasButtonDimensions(node) ==
    /\ node.absoluteBoundingBox.present
    /\ node.absoluteBoundingBox.width > 60 /\ node.absoluteBoundingBox.width < 300
    /\ node.absoluteBoundingBox.height > 30 /\ node.absoluteBoundingBox.height < 80

isButtonPattern(node) ==
    LET hasText       == \E i \in 1..Len(node.children) : node.children[i].type = "TEXT"
        hasBackground == node.fills > 0
        isClickable   == \/ NameIncludes(node.name, <<"b", "u", "t", "t", "o", "n">>)
                         \/ NameIncludes(node.name, <<"b", "t", "n">>)
    IN  hasText /\ hasBackground /\ (isClickable \/ hasButtonDimensions(node))

isFormPattern(node) ==
    \E i \in 1..Len(node.children) :
        LET child == node.children[i]
        IN  \/ NameIncludes(child.name, <<"i", "n", "p", "u", "t">>)
            \/ NameIncludes(child.name, <<"f", "i", "e", "l", "d">>)
            \/ child.type = "TEXT" /\ NameIncludes(child.name, <<"l", "a", "b", "e", "l">>)

\* Math.abs(a - b)
AbsDiff(a, b) == IF a >= b THEN a - b ELSE b - a

isLinearLayout(node) ==
    /\ Len(node.children) >= 2
    /\ LET firstChild  == node.children[1]
           secondChild == node.children[2]
       IN  /\ firstChild.absoluteBoundingBox.present
           /\ secondChild.absoluteBoundingBox.present
           /\ \/ AbsDiff(firstChild.absoluteBoundingBox.y,
                          secondChild.absoluteBoundingBox.y) < 10
              \/ AbsDiff(firstChild.absoluteBoundingBox.x,
                          secondChild.absoluteBoundingBox.x) < 10

isNavigationPattern(node) ==
    LET hasMultipleItems == Len(node.children) >= 3
        hasNavKeywords   == \/ NameIncludes(node.name, <<"n", "a", "v">>)
                            \/ NameIncludes(node.name, <<"m", "e", "n", "u">>)
    IN  hasMultipleItems /\ (isLinearLayout(node) \/ hasNavKeywords)

\* the simplified contrast check
hasProperContrast(node) == TRUE

hasMinimumTouchTarget(node) ==
    /\ node.absoluteBoundingBox.present
    /\ node.absoluteBoundingBox.width >= 44
    /\ node.absoluteBoundingBox.height >= 44

Insight(type, message) == [type |-> type, message |-> message]

analyzeCardAccessibility(node) ==
    <<Insight("suggestion", "Add semantic HTML structure")>>
    \o (IF ~hasProperContrast(node)
        THEN <<Insight("warning", "Text contrast may be insufficient")>>
        ELSE <<>>)

analyzeButtonAccessibility(node) ==
    <<Insight("suggestion", "Add proper ARIA labels")>>
    \o (IF ~hasMinimumTouchTarget(node)
        THEN <<Insight("error", "Touch target too small")>>
        ELSE <<>>)

analyzeFormAccessibility(node) ==
    <<Insight("error", "Associate labels with form controls"),
      Insight("suggestion", "Add form validation feedback")>>

analyzeNavigationAccessibility(node) ==
    <<Insight("error", "Add navigation landmarks"),
      Insight("suggestion", "Implement keyboard navigation")>>

\* confidence is in hundredths
DesignPattern(type, confidence, accessibility) ==
    [type |-> type, confidence |-> confidence, accessibility |-> accessibility]

\* identifyPattern: the patterns it returns for the node, <<>> for null
identifyPattern(node) ==
    IF isCardPattern(node)
    THEN <<DesignPattern("card", 85, analyzeCardAccessibility(node))>>
    ELSE IF isButtonPattern(node)
    THEN <<DesignPattern("button", 90, analyzeButtonAccessibility(node))>>
    ELSE IF isFormPattern(node)
    THEN <<DesignPattern("form", 80, analyzeFormAccessibility(node))>>
    ELSE IF isNavigationPattern(node)
    THEN <<DesignPattern("navigation", 75, analyzeNavigationAccessibility(node))>>
    ELSE <<>>

\* one round of the for loop: await identifyPattern(node), push the pattern
AnalyzeNode ==
    /\ analyzerPc = "looping"
    /\ nodeIndex <= Len(nodes)
    /\ LET found == identifyPattern(nodes[nodeIndex])
       IN  /\ patterns' = patterns \o found
           /\ patternOf' = patternOf \o [i \in 1..Len(found) |-> nodeIndex]
    /\ nodeIndex' = nodeIndex + 1
    /\ UNCHANGED <<nodes, analyzerPc, outsideAnalyzer>>

\* return patterns
ReturnPatterns ==
    /\ analyzerPc = "looping"
    /\ nodeIndex > Len(nodes)
    /\ analyzerPc' = "returned"
    /\ UNCHANGED <<nodes, nodeIndex, patterns, patternOf, outsideAnalyzer>>

NextAnalyzer ==
    \/ AnalyzeNode
    \/ ReturnPatterns

SpecAnalyzer == InitAnalyzing /\ [][NextAnalyzer]_vars

----------------------------------------------------------------------------
\* QualityAssessor.performQualityAssessment

outsideQuality == <<cacheVars, engineVars, workerVars, assemblerVars, ingestVars,
                    textVars, sanitizeVars, attributeVars, analyzerVars, lateVars>>

\* Math.min and Math.max
Min(a, b) == IF a <= b THEN a ELSE b
Max(a, b) == IF a >= b THEN a ELSE b

\* /\/\*|\/\//.test(codeString)
HasComments(codeString) ==
    Includes(codeString, <<"/", "*">>) \/ Includes(codeString, <<"/", "/">>)

calculateVisualScore(code) == 85

calculateCodeScore(codeString, cfg) ==
    Min(70 + (IF cfg.typescript /\ Includes(codeString, CodeInterface) THEN 15 ELSE 0)
           + (IF \/ Includes(codeString, <<"R", "e", "a", "c", "t", ".", "F", "C">>)
                 \/ Includes(codeString, CodeFunction)
              THEN 10 ELSE 0)
           + (IF HasComments(codeString) THEN 5 ELSE 0),
        100)

\* nine points for every flag and no cap
calculatePerformanceScoreUncapped(code, cfg) ==
    75 + (IF cfg.treeshaking THEN 9 ELSE 0)
       + (IF cfg.codesplitting THEN 9 ELSE 0)
       + (IF cfg.lazyLoading THEN 9 ELSE 0)

calculatePerformanceScore(code, cfg) ==
    Min(75 + (IF cfg.treeshaking THEN 8 ELSE 0)
           + (IF cfg.codesplitting THEN 8 ELSE 0)
           + (IF cfg.lazyLoading THEN 9 ELSE 0),
        100)

calculateSecurityScore(codeString) ==
    Max(90 - (IF Includes(codeString, CodeInnerHtml) THEN 20 ELSE 0)
           - (IF Includes(codeString, CodeEval) THEN 30 ELSE 0)
           - (IF Includes(codeString, CodeDocumentWrite) THEN 25 ELSE 0),
        0)

\* Object.values(o).reduce((sum, score) => sum + score, 0)
RECURSIVE SumOver(_, _)
SumOver(o, keys) ==
    IF keys = {} THEN 0
    ELSE LET k == CHOOSE k \in keys : TRUE
         IN  o[k] + SumOver(o, keys \ {k})

\* the mean of the five categories that are computed from the text and the config
MeanOfComputed(o) ==
    [n |-> SumOver(o, DOMAIN o \ {"visual"}), d |-> Cardinality(DOMAIN o \ {"visual"})]

\* sum of Object.values(categories) / Object.keys(categories).length, as
\* the fraction n / d
Mean(o) ==
    [n |-> SumOver(o, DOMAIN o), d |-> Cardinality(DOMAIN o)]

Issue(level, message, category) ==
    [level |-> level, message |-> message, category |-> category]

performQualityAssessment(code, cfg) ==
    LET codeString == IF code.componentCode.t = "string"
                      THEN code.componentCode.s ELSE <<>>
        styleString == code.styleCode.s
        hasTypeScript == cfg.typescript /\ Includes(codeString, CodeInterface)
        hasAccessibility == \/ Includes(codeString, CodeAria)
                            \/ Includes(codeString, <<"r", "o", "l", "e", "=">>)
                            \/ Includes(codeString, <<"a", "l", "t", "=">>)
        hasResponsive == \/ Includes(styleString, <<"@", "m", "e", "d", "i", "a">>)
                         \/ Includes(styleString, <<"r", "e", "m">>)
                         \/ Includes(styleString, <<"e", "m">>)
                         \/ Includes(styleString, <<"%">>)
        hasTests == cfg.unitTests
        hasComments == HasComments(codeString)
        categories ==
            [visual          |-> calculateVisualScore(code),
             code            |-> calculateCodeScore(codeString, cfg),
             performance     |-> calculatePerformanceScore(code, cfg),
             accessibility   |-> IF hasAccessibility THEN 95 ELSE 60,
             maintainability |-> (IF hasComments THEN 40 ELSE 20)
                                 + (IF hasTypeScript THEN 30 ELSE 10)
                                 + (IF hasTests THEN 30 ELSE 0),
             security        |-> calculateSecurityScore(codeString)]
        recommendations ==
            (IF ~hasTypeScript /\ cfg.typescript
             THEN <<"Enable TypeScript for better type safety">> ELSE <<>>)
            \o (IF ~hasResponsive
                THEN <<"Add responsive design patterns">> ELSE <<>>)
    IN  [overall         |-> Mean(categories),
         categories      |-> categories,
         issues          |-> IF ~hasAccessibility
                             THEN <<Issue("warning", "Missing accessibility attributes",
                                          "accessibility")>>
                             ELSE <<>>,
         recommendations |-> recommendations,
         aiSuggestions   |-> recommendations]

\* qualityAssessor.performQualityAssessment(code, config)
Assess ==
    /\ assessPc = "called"
    /\ assessment' = performQualityAssessment(qualityCode, qualityConfig)
    /\ assessPc' = "returned"
    /\ UNCHANGED <<qualityCode, qualityConfig, outsideQuality>>

NextQuality == Assess

SpecQuality == InitAssessing /\ [][NextQuality]_vars

----------------------------------------------------------------------------
\* The pattern analyzer and the quality assessor side by side: a call of
\* analyzeDesignPatterns on any nodes, or a call of performQualityAssessment
\* on any text and config; the other one runs on its fixed input
InitScores == InitAnalyzing \/ InitAssessing

NextScores == NextAnalyzer \/ NextQuality

SpecScores == InitScores /\ [][NextScores]_vars

----------------------------------------------------------------------------
\* validateFigmaData, normalizeFigmaData, extractSVGFromFigma and
\* analyzeFigmaDesign

\* the first strategy whose path holds a truthy children value (for "root":
\* an array)
MatchedStructure(d) ==
    CASE d.shape \in {"direct", "wrapped", "complex"} -> d.shape
      [] d.shape = "root" /\ d.children.isArray      -> "root"
      [] OTHER                                        -> "invalid"

validateFigmaData(d) ==
    IF d.shape = "null"
    THEN [isValid |-> FALSE, structure |-> "invalid", hasDocument |-> FALSE,
          hasChildren |-> FALSE, childrenCount |-> 0]
    ELSE LET matched       == MatchedStructure(d)
             hasDocument   == matched # "invalid"
             hasChildren   == hasDocument /\ d.children.isArray
             childrenCount == IF hasChildren THEN Len(d.children.items) ELSE 0
         IN  [isValid       |-> hasDocument /\ hasChildren /\ childrenCount > 0,
              structure     |-> IF matched = "root" THEN "direct" ELSE matched,
              hasDocument   |-> hasDocument,
              hasChildren   |-> hasChildren,
              childrenCount |-> childrenCount]

\* normalizeFigmaData: the document it returns, or null
normalizeFigmaData(d) ==
    IF d.shape = "null" \/ MatchedStructure(d) = "invalid"
    THEN [isNull |-> TRUE, children |-> [isArray |-> FALSE, items |-> <<>>]]
    ELSE [isNull |-> FALSE, children |-> d.children]

\* extractShapes: the number of shapes it draws
extractShapes(children) ==
    IF ~children.isArray THEN 0
    ELSE Cardinality({i \in 1..Len(children.items) :
                        /\ children.items[i].hasBox
                        /\ children.items[i].type \in {"RECTANGLE", "ELLIPSE", "TEXT"}})

extractSVGFromFigma(d) ==
    LET validation == validateFigmaData(d)
        normalized == normalizeFigmaData(d)
    IN  IF ~validation.isValid
        THEN [kind |-> "fallback", shapes |-> 0, message |-> "Validation failed"]
        ELSE IF normalized.isNull
        THEN [kind |-> "fallback", shapes |-> 0,
              message |-> "Unable to normalize Figma data structure"]
        ELSE IF extractShapes(normalized.children) > 0
        THEN [kind |-> "extracted", shapes |-> extractShapes(normalized.children),
              message |-> ""]
        ELSE [kind |-> "default", shapes |-> 0, message |-> ""]

\* extractNodes: only figmaData.document.children is looked at; forEach of
\* a value that is no array throws
extractNodes(d) ==
    IF d.shape # "direct" THEN [threw |-> FALSE, nodes |-> <<>>]
    ELSE IF ~d.children.isArray THEN [threw |-> TRUE, nodes |-> <<>>]
    ELSE [threw |-> FALSE, nodes |-> d.children.items]

\* await enhancedCodeGenerationEngine.extractSVGFromFigma(figmaData)
ExtractSVGFromFigma ==
    /\ extractedSvg = NoSvg
    /\ extractedSvg' = extractSVGFromFigma(figmaData)
    /\ UNCHANGED <<figmaData, analysis, outsideFigma>>

\* await aiDesignAnalyzer.analyzeFigmaDesign(figmaData, config): the catch
\* returns the fallback analysis
AnalyzeFigmaDesign ==
    /\ analysis = NoAnalysis
    /\ analysis' = IF extractNodes(figmaData).threw
                   THEN [kind |-> "fallback", nodes |-> <<>>]
                   ELSE [kind |-> "analysis", nodes |-> extractNodes(figmaData).nodes]
    /\ UNCHANGED <<figmaData, extractedSvg, outsideFigma>>

NextFigma ==
    \/ ExtractSVGFromFigma
    \/ AnalyzeFigmaDesign

SpecFigma == InitFigmaInput /\ [][NextFigma]_vars

----------------------------------------------------------------------------
\* framework adapters.  A result of the model holds the adapter that built the
\* component and the markup it placed inside the adapter's fixed wrapper text.

\* does a match of /\{([^}]+)\}/ start at position i of s
ExpressionAt(s, i) ==
    /\ i + 2 <= Len(s)
    /\ s[i] = "{"
    /\ s[i + 1] # "}"
    /\ \E j \in (i + 2)..Len(s) : s[j] = "}"

\* s.replace(/\{([^}]+)\}/g, '{{ $1 }}') when wrap, s.replace(/\{[^}]+\}/g, '')
\* when not
RECURSIVE ReplaceExpressions(_, _)
ReplaceExpressions(s, wrap) ==
    IF \E i \in 1..Len(s) : ExpressionAt(s, i)
    THEN LET i == CHOOSE i \in 1..Len(s) :
                      ExpressionAt(s, i) /\ \A k \in 1..(i - 1) : ~ExpressionAt(s, k)
             j == IndexOfFrom(s, <<"}">>, i + 2)
             inner == SubSeq(s, i + 1, j - 1)
         IN  SubSeq(s, 1, i - 1)
             \o (IF wrap THEN <<"{", "{", " ">> \o inner \o <<" ", "}", "}">> ELSE <<>>)
             \o ReplaceExpressions(From(s, j + 1), wrap)
    ELSE s

ClassNameEq == <<"c", "l", "a", "s", "s", "N", "a", "m", "e", "=">>
ClassEq == <<"c", "l", "a", "s", "s", "=">>
OnClickEq == <<"o", "n", "C", "l", "i", "c", "k", "=">>
OnChangeEq == <<"o", "n", "C", "h", "a", "n", "g", "e", "=">>

convertJSXToVueTemplate(jsx) ==
    ReplaceAll(ReplaceAll(ReplaceExpressions(ReplaceAll(jsx, ClassNameEq, ClassEq), TRUE),
                          OnClickEq, <<"@", "c", "l", "i", "c", "k", "=">>),
               OnChangeEq, <<"@", "i", "n", "p", "u", "t", "=">>)

convertJSXToAngularTemplate(jsx) ==
    ReplaceAll(ReplaceAll(ReplaceExpressions(ReplaceAll(jsx, ClassNameEq, <<"[", "c", "l", "a", "s", "s", "]", "=">>), TRUE),
                          OnClickEq, <<"(", "c", "l", "i", "c", "k", ")", "=">>),
               OnChangeEq, <<"(", "c", "h", "a", "n", "g", "e", ")", "=">>)

convertJSXToSvelteTemplate(jsx) ==
    ReplaceAll(ReplaceAll(ReplaceAll(jsx, ClassNameEq, ClassEq), OnClickEq, <<"o", "n", ":", "c", "l", "i", "c", "k", "=">>),
               OnChangeEq, <<"o", "n", ":", "c", "h", "a", "n", "g", "e", "=">>)

\* the switch of adaptToFramework with no default branch: a value without a
\* case of its own is rejected
adaptToFrameworkStrict(jsx, fw) ==
    CASE fw = "vue"     -> [kind |-> "returned", adapter |-> "vue", code |-> convertJSXToVueTemplate(jsx)]
      [] fw = "angular" -> [kind |-> "returned", adapter |-> "angular", code |-> convertJSXToAngularTemplate(jsx)]
      [] fw = "svelte"  -> [kind |-> "returned", adapter |-> "svelte", code |-> convertJSXToSvelteTemplate(jsx)]
      [] fw = "react"   -> [kind |-> "returned", adapter |-> "react", code |-> jsx]
      [] OTHER          -> [kind |-> "thrown", adapter |-> "", code |-> <<>>]

\* the switch of adaptToFramework; adaptToReact places jsxCode unchanged
adaptToFramework(jsx, fw) ==
    CASE fw = "vue"     -> [kind |-> "returned", adapter |-> "vue", code |-> convertJSXToVueTemplate(jsx)]
      [] fw = "angular" -> [kind |-> "returned", adapter |-> "angular", code |-> convertJSXToAngularTemplate(jsx)]
      [] fw = "svelte"  -> [kind |-> "returned", adapter |-> "svelte", code |-> convertJSXToSvelteTemplate(jsx)]
      [] OTHER          -> [kind |-> "returned", adapter |-> "react", code |-> jsx]

\* cleanJsx of generateReactComponent
generateReactComponent(jsx, pass) ==
    LET opened == IF At(jsx, <<"<", "s", "v", "g">>, 1)
                  THEN <<"<", "s", "v", "g", " ", "c", "l", "a", "s", "s", "N", "a", "m", "e", "=", "{", "c", "l", "a", "s", "s", "N", "a", "m", "e", "}", " ", "s", "t", "y", "l", "e", "=", "{", "s", "t", "y", "l", "e", "}">>
                       \o From(jsx, 5)
                  ELSE jsx
    IN  ReplaceAll(opened, <<"{", ".", ".", ".", "p", "r", "o", "p", "s", "}">>,
                   IF pass THEN <<"{", ".", ".", ".", "r", "e", "s", "t", "P", "r", "o", "p", "s", "}">> ELSE <<>>)

generateVueComponent(jsx) == ReplaceExpressions(ReplaceAll(jsx, ClassNameEq, ClassEq), TRUE)

generateAngularComponent(jsx) == ReplaceExpressions(ReplaceAll(jsx, ClassNameEq, ClassEq), TRUE)

generateHTMLComponent(jsx) == ReplaceExpressions(ReplaceAll(jsx, ClassNameEq, ClassEq), FALSE)

\* transformer from the point where svgToJsx has returned jsxString
transformer(jsx, fw, pass) ==
    CASE fw = "vue"     -> [kind |-> "returned", adapter |-> "vue", code |-> generateVueComponent(jsx)]
      [] fw = "angular" -> [kind |-> "returned", adapter |-> "angular", code |-> generateAngularComponent(jsx)]
      [] fw = "html"    -> [kind |-> "returned", adapter |-> "html", code |-> generateHTMLComponent(jsx)]
      [] OTHER          -> [kind |-> "returned", adapter |-> "react", code |-> generateReactComponent(jsx, pass)]

\* await frameworkAdapter.adaptToFramework(jsxCode, cssCode, config)
AdaptToFramework ==
    /\ adapterResult = NoCode
    /\ adapterResult' = adaptToFramework(jsxCode, framework)
    /\ UNCHANGED <<jsxCode, framework, passProps, svgToJsxThrows, transformerResult,
                   outsideFramework>>

\* await transformer(svg, config): a throw of svgToJsx is caught and thrown
\* again as 'Transformation failed: ...'
Transformer ==
    /\ transformerResult = NoCode
    /\ transformerResult' = IF svgToJsxThrows
                            THEN [kind |-> "thrown", adapter |-> "", code |-> <<>>]
                            ELSE transformer(jsxCode, framework, passProps)
    /\ UNCHANGED <<jsxCode, framework, passProps, svgToJsxThrows, adapterResult,
                   outsideFramework>>

NextFramework ==
    \/ AdaptToFramework
    \/ Transformer

SpecFramework == InitAdapting /\ [][NextFramework]_vars

----------------------------------------------------------------------------
\* ErrorHandler.

\* the messages table of getUserFriendlyMessage
UserFriendlyMessages ==
    [c \in {"REACT_HOOK_ERROR", "FIGMA_CONNECTION_FAILED", "INVALID_FIGMA_URL",
            "ACCESS_TOKEN_INVALID", "SVG_CONVERSION_FAILED", "CSS_VALIDATION_FAILED",
            "CODE_GENERATION_FAILED", "NETWORK_ERROR", "LARGE_FILE_ERROR", "MEMORY_ERROR"} |->
        CASE c = "REACT_HOOK_ERROR" -> "A component error occurred. Please refresh the page and try again."
          [] c = "FIGMA_CONNECTION_FAILED" -> "Failed to connect to Figma. Please check your URL and access token."
          [] c = "INVALID_FIGMA_URL" -> "Invalid Figma URL format. Please provide a valid Figma file URL."
          [] c = "ACCESS_TOKEN_INVALID" -> "Invalid access token. Please check your Figma Personal Access Token."
          [] c = "SVG_CONVERSION_FAILED" -> "Failed to convert SVG to TSX. Please check your SVG code format."
          [] c = "CSS_VALIDATION_FAILED" -> "CSS validation failed. Please check your CSS syntax."
          [] c = "CODE_GENERATION_FAILED" -> "Code generation failed. Please try again or contact support."
          [] c = "NETWORK_ERROR" -> "Network error occurred. Please check your internet connection."
          [] c = "LARGE_FILE_ERROR" -> "File is too large to process. Please use a smaller file or optimize your content."
          [] c = "MEMORY_ERROR" -> "Insufficient memory to process the file. Please try with a smaller file."]

\* the errorInfo handleError builds
ErrorInfoOf(error, step) ==
    [code    |-> IF error.figma THEN error.code ELSE "UNKNOWN_ERROR",
     message |-> IF error.message # "" THEN error.message ELSE "Unknown error occurred",
     step    |-> IF step # NoStep THEN step ELSE IF error.figma THEN error.step ELSE NoStep]

\* getUserFriendlyMessage without its table: the message of the errorInfo
getUserFriendlyMessageUnmapped(errorInfo) ==
    IF errorInfo.message # "" THEN errorInfo.message
    ELSE "An unexpected error occurred. Please try again."

getUserFriendlyMessage(errorInfo) ==
    LET code == IF errorInfo.code # "" THEN errorInfo.code ELSE "UNKNOWN_ERROR"
    IN  IF code \in DOMAIN UserFriendlyMessages THEN UserFriendlyMessages[code]
        ELSE IF errorInfo.message # "" THEN errorInfo.message
        ELSE "An unexpected error occurred. Please try again."

\* errorHandler.handleError(error, step); no error boundary callback is
\* registered
HandleError(error, step) ==
    /\ errorLog' = Append(errorLog, ErrorInfoOf(error, step))
    /\ handledErrors' = Append(handledErrors, [error |-> error, step |-> step])
    /\ returnedMessages' = Append(returnedMessages, getUserFriendlyMessage(ErrorInfoOf(error, step)))

CallHandleError ==
    /\ Len(handledErrors) < MaxErrors
    /\ \E error \in HandledErrors, step \in StepArguments : HandleError(error, step)
    /\ UNCHANGED <<retries, attempt, operations, lastError, retryOutcome, retryPc,
                   outsideErrors>>

\* errorHandler.clearErrorLog()
ClearErrorLog ==
    /\ errorLog' = <<>>
    /\ handledErrors' = <<>>
    /\ returnedMessages' = <<>>
    /\ UNCHANGED <<retries, attempt, operations, lastError, retryOutcome, retryPc,
                   outsideErrors>>

NextErrorLog ==
    \/ CallHandleError
    \/ ClearErrorLog

SpecErrorLog == InitHandling /\ [][NextErrorLog]_vars

----------------------------------------------------------------------------
\* AsyncHandler.executeWithRetry.

LogUnchanged == UNCHANGED <<errorLog, handledErrors, returnedMessages>>

\* the start of a loop iteration: operation() is called and raced against the
\* timeout promise
StartAttempt(a) ==
    /\ attempt' = a
    /\ operations' = Append(operations, "running")
    /\ retryPc' = "racing"

\* the catch block of an iteration
AttemptFailed(error) ==
    /\ lastError' = error
    /\ IF attempt = retries
       THEN /\ HandleError(error, NoStep)
            /\ retryOutcome' = [kind |-> "rejected", attempt |-> attempt, error |-> error]
            /\ retryPc' = "rejected"
       ELSE /\ LogUnchanged
            /\ retryPc' = "delaying"
            /\ UNCHANGED retryOutcome

\* executeWithRetry(operation, config) is called: the first iteration, or
\* throw lastError! when the loop has none
ExecuteWithRetry ==
    /\ retryPc = "idle"
    /\ IF 1 <= retries
       THEN /\ StartAttempt(1)
            /\ UNCHANGED <<lastError, retryOutcome>>
       ELSE /\ retryOutcome' = [kind |-> "rejected", attempt |-> 0, error |-> lastError]
            /\ retryPc' = "rejected"
            /\ UNCHANGED <<attempt, operations, lastError>>
    /\ LogUnchanged
    /\ UNCHANGED <<retries, outsideErrors>>

\* the promise of the i-th operation() call resolves
OperationResolves(i) ==
    /\ operations[i] = "running"
    /\ operations' = [operations EXCEPT ![i] = "resolved"]
    /\ IF i = attempt /\ retryPc = "racing"
       THEN /\ retryOutcome' = [kind |-> "resolved", attempt |-> i, error |-> NoError]
            /\ retryPc' = "returned"
       ELSE UNCHANGED <<retryOutcome, retryPc>>
    /\ LogUnchanged
    /\ UNCHANGED <<retries, attempt, lastError, outsideErrors>>

\* the promise of the i-th operation() call rejects
OperationRejects(i, error) ==
    /\ operations[i] = "running"
    /\ operations' = [operations EXCEPT ![i] = "rejected"]
    /\ IF i = attempt /\ retryPc = "racing"
       THEN AttemptFailed(error)
       ELSE LogUnchanged /\ UNCHANGED <<lastError, retryOutcome, retryPc>>
    /\ UNCHANGED <<retries, attempt, outsideErrors>>

\* the timer of the current iteration fires first; operation() stays running
AttemptTimesOut ==
    /\ retryPc = "racing"
    /\ AttemptFailed(TimeoutError)
    /\ UNCHANGED <<retries, attempt, operations, outsideErrors>>

\* await this.delay(retryDelay * attempt) is over: the next iteration
DelayElapsed ==
    /\ retryPc = "delaying"
    /\ StartAttempt(attempt + 1)
    /\ LogUnchanged
    /\ UNCHANGED <<retries, lastError, retryOutcome, outsideErrors>>

NextRetry ==
    \/ ExecuteWithRetry
    \/ \E i \in 1..Len(operations) : OperationResolves(i)
    \/ \E i \in 1..Len(operations), error \in OperationErrors : OperationRejects(i, error)
    \/ AttemptTimesOut
    \/ DelayElapsed

SpecRetry == InitHandling /\ [][NextRetry]_vars

----------------------------------------------------------------------------
\* two processLargeSvg runs on the shared largeSvgHandler.

\* this.abortController?.signal.aborted
SignalAborted == sharedController # 0 /\ controllers[sharedController]

\* the run is inside the loop of processChunks with a chunk still to process
ProcessingChunks(r) == largePc[r] = "chunks" /\ largeDone[r] < largeChunks[r]

\* processLargeSvg(svgContent) is called: the size check, then
\* this.abortController = new AbortController(); validation and chunking follow
SharedProcessLargeSvg(r) ==
    /\ largePc[r] = "idle"
    /\ IF tooLarge[r]
       THEN /\ largePc' = [largePc EXCEPT ![r] = "rejected"]
            /\ UNCHANGED <<sharedController, controllers>>
       ELSE /\ controllers' = Append(controllers, FALSE)
            /\ sharedController' = Len(controllers) + 1
            /\ largePc' = [largePc EXCEPT ![r] = "chunks"]
    /\ UNCHANGED <<largeChunks, tooLarge, largeDone, cancelSeen, processedAfterCancel,
                   outsideShared>>

\* an iteration of processChunks that finds the signal not aborted
SharedProcessChunk(r) ==
    /\ ProcessingChunks(r)
    /\ ~SignalAborted
    /\ largeDone' = [largeDone EXCEPT ![r] = @ + 1]
    /\ processedAfterCancel' = [processedAfterCancel EXCEPT ![r] = @ \/ cancelSeen[r]]
    /\ UNCHANGED <<sharedController, controllers, largeChunks, tooLarge, largePc,
                   cancelSeen, outsideShared>>

\* an iteration that finds it aborted: throw new Error('Processing aborted'),
\* then cleanup() in the finally block
AbortAtBoundary(r) ==
    /\ ProcessingChunks(r)
    /\ SignalAborted
    /\ largePc' = [largePc EXCEPT ![r] = "rejected"]
    /\ sharedController' = 0
    /\ UNCHANGED <<controllers, largeChunks, tooLarge, largeDone, cancelSeen,
                   processedAfterCancel, outsideShared>>

\* the loop is over: combine, optimize, return, then cleanup()
FinishLargeSvg(r) ==
    /\ largePc[r] = "chunks"
    /\ largeDone[r] = largeChunks[r]
    /\ largePc' = [largePc EXCEPT ![r] = "returned"]
    /\ sharedController' = 0
    /\ UNCHANGED <<controllers, largeChunks, tooLarge, largeDone, cancelSeen,
                   processedAfterCancel, outsideShared>>

\* largeSvgHandler.cancel(): this.abortController?.abort()
CancelShared ==
    /\ controllers' = IF sharedController # 0
                      THEN [controllers EXCEPT ![sharedController] = TRUE]
                      ELSE controllers
    /\ cancelSeen' = [r \in LargeRuns |-> cancelSeen[r] \/ ProcessingChunks(r)]
    /\ UNCHANGED <<sharedController, largeChunks, tooLarge, largePc, largeDone,
                   processedAfterCancel, outsideShared>>

NextShared ==
    \/ \E r \in LargeRuns : SharedProcessLargeSvg(r)
    \/ \E r \in LargeRuns : SharedProcessChunk(r)
    \/ \E r \in LargeRuns : AbortAtBoundary(r)
    \/ \E r \in LargeRuns : FinishLargeSvg(r)
    \/ CancelShared

SpecShared == InitSharing /\ [][NextShared]_vars

----------------------------------------------------------------------------
\* FigmaStepsContext: the batch reducer cases and startBatchProcessing.

\* case 'UPDATE_FILE_STATUS'
UpdateFileStatus(b, id, status) ==
    [b EXCEPT !.files = [i \in 1..Len(b.files) |->
                            IF b.files[i].id = id
                            THEN [b.files[i] EXCEPT !.status = status]
                            ELSE b.files[i]]]

\* Math.round((i / n) * 100) for 0 <= i <= n, n > 0
RoundedPercent(i, n) == (200 * i + n) \div (2 * n)

\* updateFileStatus(file.id, 'success') and updateBatchProgress({successCount:
\* state...successCount + 1, completedFiles: [...state...completedFiles,
\* file.id]}): state is the one the callback was created with
FileSucceeded(b, seen, id) ==
    [UpdateFileStatus(b, id, "success") EXCEPT
        !.successCount = seen.successCount + 1,
        !.completedFiles = Append(seen.completedFiles, id)]

\* the catch branch of a file
FileFailed(b, seen, id) ==
    [UpdateFileStatus(b, id, "error") EXCEPT
        !.errorCount = seen.errorCount + 1,
        !.failedFiles = Append(seen.failedFiles, id)]

\* startBatchProcessing() is called: the callback of the latest render reads
\* files from its state, returns when there is none, else dispatches
\* START_BATCH_PROCESSING
StartBatchProcessing ==
    /\ batchPc \in {"idle", "finished"}
    /\ batchesRun < MaxBatches
    /\ batchesRun' = batchesRun + 1
    /\ capturedBatch' = batchProcessing
    /\ batchIndex' = 0
    /\ IF Len(batchProcessing.files) = 0
       THEN /\ batchPc' = "noFiles"
            /\ UNCHANGED batchProcessing
       ELSE /\ batchPc' = "loop"
            /\ batchProcessing' =
                 [batchProcessing EXCEPT !.isActive = TRUE, !.currentFileIndex = 0,
                     !.successCount = 0, !.errorCount = 0,
                     !.completedFiles = <<>>, !.failedFiles = <<>>]
    /\ UNCHANGED outsideBatch

\* the head of an iteration: progress, status 'loading', then the awaits
BeginFile ==
    /\ batchPc = "loop"
    /\ batchIndex < Len(capturedBatch.files)
    /\ batchProcessing' =
         UpdateFileStatus(
             [batchProcessing EXCEPT
                 !.currentFileIndex = batchIndex,
                 !.totalProgress = RoundedPercent(batchIndex, Len(capturedBatch.files))],
             capturedBatch.files[batchIndex + 1].id, "loading")
    /\ batchPc' = "awaiting"
    /\ UNCHANGED <<capturedBatch, batchIndex, batchesRun, outsideBatch>>

\* the awaits of the file resolve
FileSucceeds ==
    /\ batchPc = "awaiting"
    /\ batchProcessing' =
         FileSucceeded(batchProcessing, capturedBatch, capturedBatch.files[batchIndex + 1].id)
    /\ batchIndex' = batchIndex + 1
    /\ batchPc' = "loop"
    /\ UNCHANGED <<capturedBatch, batchesRun, outsideBatch>>

\* one of them rejects, or the URL is invalid
FileFails ==
    /\ batchPc = "awaiting"
    /\ batchProcessing' =
         FileFailed(batchProcessing, capturedBatch, capturedBatch.files[batchIndex + 1].id)
    /\ batchIndex' = batchIndex + 1
    /\ batchPc' = "loop"
    /\ UNCHANGED <<capturedBatch, batchesRun, outsideBatch>>

\* after the loop: totalProgress 100 and STOP_BATCH_PROCESSING
FinishBatch ==
    /\ batchPc = "loop"
    /\ batchIndex = Len(capturedBatch.files)
    /\ batchProcessing' =
         [batchProcessing EXCEPT !.totalProgress = 100,
             !.currentFileIndex = Len(capturedBatch.files) - 1, !.isActive = FALSE]
    /\ batchPc' = "finished"
    /\ UNCHANGED <<capturedBatch, batchIndex, batchesRun, outsideBatch>>

NextBatch ==
    \/ StartBatchProcessing
    \/ BeginFile
    \/ FileSucceeds
    \/ FileFails
    \/ FinishBatch

SpecBatch == InitBatching /\ [][NextBatch]_vars

\* end of the subsystems

----------------------------------------------------------------------------
IsPrefix(a, b) == Len(a) <= Len(b) /\ \A i \in 1..Len(a) : a[i] = b[i]

Delivered(r, p) == \E i \in 1..Len(progress[r]) : progress[r][i] = p

\* C1: within one run the callback percentages follow 10,30,50,70,85,95,100
\* (strictly increasing; a prefix of it when a phase throws); 100 is delivered
\* only by a run that succeeds, and only after its result was stored.
C1_Order == <<10, 30, 50, 70, 85, 95, 100>>

C1_ProgressMonotoneAnd100OnlyOnSuccess ==
    \A r \in Runs :
        /\ IsPrefix(progress[r], C1_Order)
        /\ \A i, j \in 1..Len(progress[r]) : i < j => progress[r][i] < progress[r][j]
        /\ outcome[r].kind = "resolved" => progress[r] = C1_Order
        /\ outcome[r].kind = "rejected" => ~Delivered(r, 100)
        /\ Delivered(r, 100) => (outcome[r].kind = "resolved" /\ r \in stored)

C1_Witness ==
    \E r, q \in Runs :
        /\ outcome[r].kind = "resolved" /\ progress[r] = C1_Order
        /\ outcome[q].kind = "rejected" /\ progress[q] = <<10, 30, 50, 70, 85, 95>>

\* C2: a run in which a phase throws ends Failed: generateCode rejects with
\* the very error that was thrown, returns no GeneratedCode, and the cache
\* holds no entry written by that run.
C2_FailureRejectsUnchangedAndCachesNothing ==
    \A r \in Runs :
        /\ (thrown[r] # "none") <=> (pc[r] = "failed")
        /\ pc[r] = "failed" =>
              /\ outcome[r] = [kind |-> "rejected", value |-> null, error |-> thrown[r]]
              /\ r \notin stored
              /\ \A i \in 1..Len(cache) : cache[i].data.val # r

C2_Witness ==
    \E r, q \in Runs :
        /\ pc[r] = "failed" /\ thrown[r] = "storeError"
        /\ pc[q] = "failed" /\ thrown[q] = "workerError"

\* C3: after a successful run its GeneratedCode is in the cache under the
\* session's key, and every later lookup of that key returns it until the
\* entry exceeds its time-to-live or is evicted; a lookup after the
\* time-to-live returns null and removes the entry.
C3_LookupReturnsStoredResult ==
    \A r \in Runs :
        (outcome[r].kind = "resolved" /\ r \notin evicted) =>
            LET k == CacheKey(result[r].id)
                g == get(cache, currentCacheSize, k, now)
            IN  /\ MapHas(cache, k)
                /\ MapGet(cache, k).data = result[r]
                /\ IF Expired(MapGet(cache, k), now)
                   THEN g.result = null /\ ~MapHas(g.cache, k)
                   ELSE g.result = result[r]

\* C6: two runs in flight at the same time have different session ids, and
\* the completion or failure of one run neither removes the other run's
\* generationQueue entry nor changes the other run's result.
C6_Finishes(r) == InFlight(r) /\ ~InFlight(r)'

C6_HasEntry(q) == \E i \in 1..Len(generationQueue) : generationQueue[i].ctx = q

C6_ConcurrentSessionsIsolated ==
    [][/\ \A r, q \in Runs :
            (r # q /\ InFlight(r)' /\ InFlight(q)') => sessionId'[r] # sessionId'[q]
       /\ \A r, q \in Runs :
            (r # q /\ C6_Finishes(r) /\ InFlight(q)) =>
                /\ C6_HasEntry(q) => C6_HasEntry(q)'
                /\ result'[q] = result[q]
                /\ outcome'[q] = outcome[q]]_vars

\* C7: the generationQueue holds a session's entry exactly while its run is
\* in flight, so the queue is empty whenever no run is in flight.
C7_QueueHoldsExactlyRunsInFlight ==
    /\ {generationQueue[i].ctx : i \in 1..Len(generationQueue)}
          = {r \in Runs : InFlight(r)}
    /\ \A i \in 1..Len(generationQueue) :
          generationQueue[i].key = sessionId[generationQueue[i].ctx]

----------------------------------------------------------------------------
\* C4: after any sequence of set/store, get and clear the total size of the
\* entries held by the cache never exceeds the budget MAX_CACHE_SIZE, also
\* when one eviction pass frees too little or one entry exceeds the budget.
C4_TotalWithinBudget == SumSizes(cache) <= MAX_CACHE_SIZE

\* C5: a set whose new total (the entry it replaces not counted) would exceed
\* the budget evicts exactly the oldest quarter of the entries (by timestamp,
\* count rounded up) before it inserts; a set whose new total stays within
\* the budget evicts nothing.
C5_WouldBeTotal(k, s) ==
    SumSizes(cache) - (IF MapHas(cache, k) THEN MapGet(cache, k).size ELSE 0) + s

C5_IsOldestQuarter(E) ==
    /\ 4 * Cardinality(E) >= Len(cache)
    /\ 4 * (Cardinality(E) - 1) < Len(cache)
    /\ \A a \in E : \A b \in MapKeys(cache) \ E :
          MapGet(cache, a).timestamp <= MapGet(cache, b).timestamp

C5_SetStep(k, s) ==
    LET evictedOthers == (MapKeys(cache) \ {k}) \ MapKeys(cache')
    IN  IF C5_WouldBeTotal(k, s) > MAX_CACHE_SIZE
        THEN \E E \in SUBSET MapKeys(cache) :
                /\ E \ {k} = evictedOthers
                /\ C5_IsOldestQuarter(E)
        ELSE evictedOthers = {}

C5_EvictsOldestQuarterOnlyOverBudget ==
    [][\A k \in Keys, v \in Values, s \in Sizes :
          CacheSet(k, v, s) => C5_SetStep(k, s)]_vars

----------------------------------------------------------------------------
\* C8: a task whose timeout passes while it has no response is rejected with
\* the timeout error and is no longer in the pending-task map; a result for
\* that task delivered after its timeout settles no promise and leaves the
\* pending-task map as it is; resolve/reject is called at most once per task.
C8_TimedOutUnanswered(t) == Timeout(t) /\ promise[t].state = "pending"

C8_LateResult(t) ==
    /\ OnMessage
    /\ fromWorker # <<>>
    /\ Head(fromWorker).from = t
    /\ timer[t] = "fired"

C8_TimeoutRejectsAndLateResultIgnored ==
    [][\A t \in Tasks :
          /\ C8_TimedOutUnanswered(t) =>
                /\ promise'[t] = [state |-> "rejected", reason |-> "timeout"]
                /\ \A i \in 1..Len(pendingTasks') : pendingTasks'[i].ctx # t
          /\ C8_LateResult(t) =>
                /\ promise' = promise
                /\ pendingTasks' = pendingTasks
          /\ settleCalls'[t] <= 1]_vars

----------------------------------------------------------------------------
\* C9: assembleFinalCode returns a file set with the component file and the
\* style file, both with non-empty string content: the upstream code when it
\* is a non-empty string, the fixed fallback template when it is empty,
\* undefined or null; so the files of the GeneratedCode built from it are
\* never empty.
C9_NonEmpty(f) == f.content.t = "string" /\ f.content.s # "" /\ f.size > 0

C9_Content(upstream, fallback) ==
    IF upstream.t = "string" /\ upstream.s # "" THEN upstream ELSE fallback

C9_AssemblerAlwaysEmitsComponentAndStyle ==
    /\ asmPc \in {"assembled", "built"} =>
          /\ Len(finalCode.files) = 2
          /\ finalCode.files[1].path = "src/components/GeneratedComponent.tsx"
          /\ finalCode.files[2].path = "src/styles/generated.css"
          /\ C9_NonEmpty(finalCode.files[1])
          /\ C9_NonEmpty(finalCode.files[2])
          /\ finalCode.files[1].content =
                C9_Content(adaptedCode.componentCode, generateFallbackJSX(config))
          /\ finalCode.files[2].content =
                C9_Content(adaptedCode.styleCode, generateFallbackCSS(config))
    /\ asmPc = "built" => (files = finalCode.files /\ files # <<>>)

C9_Witness ==
    /\ asmPc = "built"
    /\ adaptedCode = [componentCode |-> Str(""), styleCode |-> JsUndefined]
    /\ files[1].content = generateFallbackJSX(config)
    /\ files[2].content = generateFallbackCSS(config)

----------------------------------------------------------------------------
\* the document is a string of more bytes than the ceiling of the call
C10_Oversize ==
    /\ caller = "svgToJsx"
    /\ svg.kind = "string"
    /\ svg.size > options.maxFileSize

C10_NothingRan ==
    /\ steps = {}
    /\ chunks = 0
    /\ processedChunks = 0
    /\ abortController = "null"
    /\ largeResult = NoLargeResult
    /\ cache = <<>>
    /\ ipc \in {"called", "done"}

----------------------------------------------------------------------------
\* a valid document within the ceiling, handed to svgToJsx with large-file
\* handling enabled (the default)
C11_ValidDocument ==
    /\ caller = "svgToJsx"
    /\ options.enableLargeFileHandling
    /\ svg.kind = "string" /\ svg.size > 0 /\ svg.hasSvg
    /\ svg.size <= options.maxFileSize
    /\ svg.size <= maxMemoryUsage

C11_RoutedChunked == "validate" \in steps

C11_RoutedSynchronous == "standard" \in steps

\* C11: once svgToJsx has routed a valid document, it went to the
\* synchronous single-pass path exactly when its byte size is below the
\* large-file threshold, and to the chunked path when its size is at or above
\* the threshold; a document of exactly the threshold size is chunked.
C11_RoutesByThreshold ==
    (C11_ValidDocument /\ ipc # "called") =>
        /\ C11_RoutedSynchronous <=> svg.size < LARGE_FILE_THRESHOLD
        /\ C11_RoutedChunked <=> svg.size >= LARGE_FILE_THRESHOLD

----------------------------------------------------------------------------
\* cancel() was called while processChunks was running: between two chunks,
\* or during the suspension after a chunk
C13_CancelledWhileProcessing == cancelledAt \in {"processing", "yielding"}

\* C13: a run that cancel() aborted while it was processing chunks processes
\* no further chunk, and it ends rejected with the cancellation error and
\* without output.
C13_CancelStopsRunWithCancellationError ==
    [][/\ (C13_CancelledWhileProcessing /\ abortController # "live")
            => processedChunks' = processedChunks
       /\ (C13_CancelledWhileProcessing' /\ ipc' = "done") =>
            /\ largeResult'.settled = "rejected"
            /\ largeResult'.error = "Processing aborted"
            /\ largeResult'.jsx = "none"]_vars

----------------------------------------------------------------------------
Leq(a, b) == a.n * b.d <= b.n * a.d

\* C14: chunks are processed one at a time in index order, each followed by
\* a suspension before the next; the values handed to onProgress never
\* decrease, the per-chunk values lie in [30, 70], and a run that resolves
\* has reported 100 last.
C14_ProgressOrdered ==
    /\ \A i, j \in 1..Len(reported) : i < j => Leq(reported[i], reported[j])
    /\ \A i \in 1..Len(reported) :
          reported[i] \notin {Pct(5), Pct(10), Pct(20), Pct(30), Pct(80), Pct(95), Pct(100)}
             => /\ Leq(Pct(30), reported[i])
                /\ Leq(reported[i], Pct(70))
    /\ (caller = "processLargeSvg" /\ largeResult.settled = "resolved")
          => (reported # <<>> /\ reported[Len(reported)] = Pct(100))
    /\ (caller = "processLargeSvg" /\ ipc \in {"processing", "yielding"}) =>
          SubSeq(reported, 5, Len(reported))
             = [i \in 1..processedChunks |-> ChunkProgress(i - 1, chunks)]
    /\ ipc = "yielding" => processedChunks >= 1

C14_ChunksInOrderProgressNeverDecreases ==
    [][/\ C14_ProgressOrdered'
       /\ processedChunks' # processedChunks =>
             /\ processedChunks' = processedChunks + 1
             /\ ipc \in {"chunked", "processing"}
             /\ ipc' = "yielding"]_vars

C14_Witness ==
    /\ caller = "processLargeSvg"
    /\ largeResult.settled = "resolved"
    /\ chunks = 3
    /\ reported = <<Pct(5), Pct(10), Pct(20), Pct(30), ChunkProgress(0, 3),
                    ChunkProgress(1, 3), ChunkProgress(2, 3), Pct(80), Pct(95),
                    Pct(100)>>

----------------------------------------------------------------------------
\* C12: the chunks are an ordered partition of the validated document: no
\* chunk is longer than the maximum chunk size, and the chunks concatenated
\* in index order are the validated document.
C12_ChunksPartitionDocument ==
    textPc \in {"chunked", "processed", "combined", "done"} =>
        /\ \A i \in 1..Len(chunkTexts) : Len(chunkTexts[i]) <= SmallChunkSize
        /\ combineChunks(chunkTexts) = validatedSvg

----------------------------------------------------------------------------
\* C15: the jsx of the chunked path has the same element count as the jsx
\* of the synchronous path for the same document.
C15_SameElementCountOnBothPaths ==
    textPc = "done" => elementCount(largeJsx) = elementCount(standardJsx)

----------------------------------------------------------------------------
\* C16: whatever converter ran, its output has no element whose tag is
\* outside ALLOWED_TAGS and no attribute that is neither in
\* ALLOWED_ATTRIBUTES nor a data- or aria- attribute.
RECURSIVE C16_Sanitized(_)
C16_Sanitized(node) ==
    /\ node.tagName \in ALLOWED_TAGS
    /\ node.attributes \subseteq (ALLOWED_ATTRIBUTES \cup DataOrAria)
    /\ \A i \in 1..Len(node.children) : C16_Sanitized(node.children[i])

C16_OutputHoldsOnlyAllowedTagsAndAttributes ==
    converter # "none" => C16_Sanitized(outputTree)

----------------------------------------------------------------------------
\* C17: processAttributeName is idempotent: applied to its own result it
\* returns that result, whatever the camelCase cache holds.
C17_ProcessAttributeNameIdempotent ==
    attrPc = "twice" => processedTwice = processedOnce

----------------------------------------------------------------------------
\* C18: the result of analyzeDesignPatterns holds, for every node, one
\* DesignPattern for each of the four predicates the node satisfies.
C18_HasPattern(i, type) ==
    \E k \in 1..Len(patterns) : patternOf[k] = i /\ patterns[k].type = type

C18_OnePatternPerSatisfiedPredicate ==
    analyzerPc = "returned" =>
        \A i \in 1..Len(nodes) :
            /\ isCardPattern(nodes[i]) => C18_HasPattern(i, "card")
            /\ isButtonPattern(nodes[i]) => C18_HasPattern(i, "button")
            /\ isFormPattern(nodes[i]) => C18_HasPattern(i, "form")
            /\ isNavigationPattern(nodes[i]) => C18_HasPattern(i, "navigation")

----------------------------------------------------------------------------
\* C19: a node with a fill, a text child, the name "Button" and a 60x40
\* box has a button pattern that carries an error finding, whatever the
\* type of the node; a rectangle without children has no card pattern.
C19_SmallButton(node) ==
    /\ node.fills > 0
    /\ \E i \in 1..Len(node.children) : node.children[i].type = "TEXT"
    /\ node.name = <<"B", "u", "t", "t", "o", "n">>
    /\ node.absoluteBoundingBox = Box(0, 0, 60, 40)

C19_ButtonWithErrorAndNoCardForBareRectangle ==
    analyzerPc = "returned" =>
        \A i \in 1..Len(nodes) :
            /\ C19_SmallButton(nodes[i]) =>
                  \E k \in 1..Len(patterns) :
                      /\ patternOf[k] = i
                      /\ patterns[k].type = "button"
                      /\ \E j \in 1..Len(patterns[k].accessibility) :
                             patterns[k].accessibility[j].type = "error"
            /\ (nodes[i].type = "RECTANGLE" /\ nodes[i].children = <<>>) =>
                  ~\E k \in 1..Len(patterns) :
                       patternOf[k] = i /\ patterns[k].type = "card"

----------------------------------------------------------------------------
----------------------------------------------------------------------------
\* C21: every DesignPattern has a confidence in [0,1] (0..100 hundredths),
\* and every category score and the overall score of an assessment are in
\* [0,100].
C21_ConfidenceAndScoresInRange ==
    /\ \A k \in 1..Len(patterns) :
          patterns[k].confidence >= 0 /\ patterns[k].confidence <= 100
    /\ assessPc = "returned" =>
          /\ \A c \in DOMAIN assessment.categories :
                assessment.categories[c] >= 0 /\ assessment.categories[c] <= 100
          /\ assessment.overall.n >= 0
          /\ assessment.overall.n <= 100 * assessment.overall.d

\* an assessment with every optimization flag on, tests on and a typed,
\* commented component, next to a returned analysis
C21_Witness ==
    /\ assessPc = "returned"
    /\ analyzerPc = "returned"
    /\ assessment.categories.performance = 100
    /\ assessment.categories.maintainability = 100

----------------------------------------------------------------------------
\* C22: for input in one of the four shapes the nodes of its children array
\* are processed by the extraction and by the analysis; for input in none of
\* them neither returns placeholder output or goes on with no nodes (both
\* fail, so neither returns).
C22_KnownShape ==
    /\ figmaData.shape \in KnownShapes
    /\ figmaData.children.isArray
    /\ Len(figmaData.children.items) > 0

C22_NoShape == figmaData.shape \in {"other", "null"}

C22_ShapesNormalizedElseExplicitFailure ==
    /\ (C22_KnownShape /\ extractedSvg # NoSvg) =>
          /\ extractedSvg.kind # "fallback"
          /\ extractedSvg.shapes = extractShapes(figmaData.children)
    /\ (C22_KnownShape /\ analysis # NoAnalysis) =>
          /\ analysis.kind = "analysis"
          /\ analysis.nodes = figmaData.children.items
    /\ C22_NoShape => extractedSvg = NoSvg /\ analysis = NoAnalysis


----------------------------------------------------------------------------
\* the adapter a value of config.framework has at each entry point
OwnAdapterOfAdapter(fw) == IF fw \in {"vue", "angular", "svelte"} THEN fw ELSE "react"
OwnAdapterOfTransformer(fw) == IF fw \in {"vue", "angular", "html"} THEN fw ELSE "react"

C24_HtmlRules(code) ==
    /\ ~Includes(code, ClassNameEq)
    /\ ~Includes(code, OnClickEq)
    /\ ~Includes(code, <<"{">>) /\ ~Includes(code, <<"}">>)
    /\ Includes(jsxCode, ClassNameEq) => Includes(code, ClassEq)

C24_ReactRules(code) == Includes(jsxCode, ClassNameEq) => Includes(code, ClassNameEq)

C24_HtmlAndReactClassAttribute ==
    /\ adapterResult.kind = "returned" =>
         /\ framework = "html" => C24_HtmlRules(adapterResult.code)
         /\ framework = "react" => C24_ReactRules(adapterResult.code)
    /\ transformerResult.kind = "returned" =>
         /\ framework = "html" => C24_HtmlRules(transformerResult.code)
         /\ framework = "react" => C24_ReactRules(transformerResult.code)


----------------------------------------------------------------------------
\* C25: executeWithRetry calls the operation at most retries times, one attempt
\* after another; it resolves with the first attempt that succeeds and makes
\* no further attempt; when every attempt fails it rejects with the error of
\* the last attempt, also for retries = 0 or 1.
C25_RetryContract ==
    /\ Len(operations) <= retries
    /\ attempt = Len(operations)
    /\ retryOutcome.kind = "resolved" =>
         /\ retryOutcome.attempt = Len(operations)
         /\ operations[retryOutcome.attempt] = "resolved"
    /\ retryOutcome.kind = "rejected" =>
         /\ retryOutcome.error # NoError
         /\ retryOutcome.attempt = retries
         /\ retryOutcome.error = lastError

\* C26: since the log was last cleared it holds one entry per handleError
\* call, in call order, and each call returned the fixed text of a known code,
\* otherwise the error's message, or 'Unknown error occurred' when the error
\* has no message.
C26_Returned(error, ownMessage) ==
    IF error.figma /\ error.code \in DOMAIN UserFriendlyMessages
    THEN UserFriendlyMessages[error.code]
    ELSE ownMessage

C26_LogAndMessages ==
    /\ Len(errorLog) = Len(handledErrors)
    /\ Len(returnedMessages) = Len(handledErrors)
    /\ \A i \in 1..Len(handledErrors) :
         LET error == handledErrors[i].error
         IN  /\ errorLog[i] = ErrorInfoOf(error, handledErrors[i].step)
             /\ returnedMessages[i] =
                  C26_Returned(error, IF error.message # "" THEN error.message
                                      ELSE "Unknown error occurred")

C26_Witness ==
    /\ Len(errorLog) = 2
    /\ handledErrors[1].error.code = "FIGMA_CONNECTION_FAILED"
    /\ returnedMessages[1] = UserFriendlyMessages["FIGMA_CONNECTION_FAILED"]
    /\ handledErrors[2].error.message = ""
    /\ ~handledErrors[2].error.figma
    /\ returnedMessages[2] = "Unknown error occurred"

\* C26 as stated: every call for an error of no known code returned the
\* error's own message.
C26_OwnMessageReturned ==
    \A i \in 1..Len(handledErrors) :
        i <= Len(returnedMessages) =>
            returnedMessages[i] = C26_Returned(handledErrors[i].error, handledErrors[i].error.message)


----------------------------------------------------------------------------
\* C27: every task dispatched with executeTask is eventually settled, also one
\* that is pending when terminate() is called.  A pending promise is settled
\* only by the message listener or by the timeout callback, and both do so
\* only while pendingTasks still holds the task's resolve and reject under the
\* task's id: a pending task whose id no other task drew must keep that entry.
C27_PendingTaskKeepsItsResolvers ==
    \A t \in Tasks :
        (promise[t].state = "pending" /\ \A u \in Tasks \ {t} : taskId[u] # taskId[t]) =>
            /\ MapHas(pendingTasks, taskId[t])
            /\ MapGet(pendingTasks, taskId[t]).ctx = t


----------------------------------------------------------------------------
\* C28: currentCacheSize equals the sum of the sizes recorded in the entries
\* of the cache map, after any sequence of set, get and clear, and is never
\* negative.
C28_CounterEqualsSumOfSizes ==
    /\ currentCacheSize = SumSizes(cache)
    /\ currentCacheSize >= 0

\* two entries written at different times that fill the budget exactly, as
\* left by a set that evicted the oldest entry
C28_Witness ==
    /\ Len(cache) = 2
    /\ cache[1].timestamp < cache[2].timestamp
    /\ currentCacheSize = cache[1].size + cache[2].size
    /\ currentCacheSize = MAX_CACHE_SIZE


----------------------------------------------------------------------------
\* C29: a cancel() issued while a run is processing chunks aborts that run at
\* its next chunk boundary, whatever the other run does: the run processes no
\* further chunk and does not return a result.
C29_CancelStopsRunAtNextBoundary ==
    \A r \in LargeRuns :
        /\ ~processedAfterCancel[r]
        /\ cancelSeen[r] => largePc[r] # "returned"


----------------------------------------------------------------------------
C30_IdsWithStatus(status) ==
    {batchProcessing.files[i].id :
        i \in {j \in 1..Len(batchProcessing.files) : batchProcessing.files[j].status = status}}

C30_Ids(list) == {list[i] : i \in 1..Len(list)}

\* C30: when startBatchProcessing has finished over n files, every file is
\* success or error, successCount and errorCount are the numbers of such
\* files and add up to n, completedFiles and failedFiles list exactly their
\* ids, totalProgress is 100 and isActive is false.
C30_BatchTotalsMatchFiles ==
    batchPc = "finished" =>
        /\ \A i \in 1..Len(batchProcessing.files) :
               batchProcessing.files[i].status \in {"success", "error"}
        /\ batchProcessing.successCount = Cardinality(C30_IdsWithStatus("success"))
        /\ batchProcessing.errorCount = Cardinality(C30_IdsWithStatus("error"))
        /\ batchProcessing.successCount + batchProcessing.errorCount = Len(batchProcessing.files)
        /\ Len(batchProcessing.completedFiles) = batchProcessing.successCount
        /\ C30_Ids(batchProcessing.completedFiles) = C30_IdsWithStatus("success")
        /\ Len(batchProcessing.failedFiles) = batchProcessing.errorCount
        /\ C30_Ids(batchProcessing.failedFiles) = C30_IdsWithStatus("error")
        /\ batchProcessing.totalProgress = 100
        /\ ~batchProcessing.isActive

====
